---- MODULE Spec2Model ----
(***************************************************************************)
(* A model of the resume parsing server (src/unnamed/part_000): the header *)
(* normalizer, the line-based section segmenter, the work-experience,      *)
(* education and skills parsers, the digest builder and the POST           *)
(* /api/parse handler, alone and with two requests in flight.              *)
(*                                                                         *)
(* JavaScript strings are TLA+ strings; TLC evaluates Len, SubSeq and \o   *)
(* on them, so every string function below works character by character   *)
(* as the source does.  SANY reads ASCII only: the bullet glyph U+2022 of  *)
(* the source is written "@" throughout (no input of the model uses "@"    *)
(* for anything else), and the backquote of the code fence is written as   *)
(* an apostrophe.                                                          *)
(***************************************************************************)
EXTENDS Integers, Sequences, FiniteSets, TLC

VARIABLES
  \* normalizeHeader called on its own
  header, variant, edits, normOrig, normalized, renormalized, npc

VARIABLES
  \* extractSectionsByLines called on its own
  text, sectionNames, lines, idx, sectionIndices, sections, spc

VARIABLES
  \* parseWorkExperience called on its own
  expText, expLines, expI, currentExp, experiences, expResult, wpc

VARIABLES
  \* parseSkills called on its own
  skillText, skillLines, skillI, currentCategory, skills, skillResult, kpc

VARIABLES
  \* parseEducation called on its own
  eduText, eduLines, eduI, currentEdu, education, eduResult, epc

VARIABLES
  \* buildRelevantResumeText called on its own
  digestSections, maxTotalLength, sectionEntries, entryI, totalLength, included, digest, dpc

VARIABLES
  \* the POST /api/parse handler, per request, and the results store
  pc, parsed, relevantText, completion, academicJson, caught, response, resumes

normVars == <<header, variant, edits, normOrig, normalized, renormalized, npc>>

segVars == <<text, sectionNames, lines, idx, sectionIndices, sections, spc>>

workVars == <<expText, expLines, expI, currentExp, experiences, expResult, wpc>>

skillVars == <<skillText, skillLines, skillI, currentCategory, skills, skillResult, kpc>>

digestVars ==
  <<digestSections, maxTotalLength, sectionEntries, entryI, totalLength, included, digest, dpc>>

eduVars == <<eduText, eduLines, eduI, currentEdu, education, eduResult, epc>>

handlerVars ==
  <<pc, parsed, relevantText, completion, academicJson, caught, response, resumes>>

vars == <<normVars, segVars, workVars, skillVars, digestVars, eduVars, handlerVars>>

notHandler == <<normVars, segVars, workVars, skillVars, digestVars, eduVars>>

\* what each component leaves alone
notNorm == <<segVars, workVars, skillVars, digestVars, eduVars, handlerVars>>

notSeg == <<normVars, workVars, skillVars, digestVars, eduVars, handlerVars>>

notWork == <<normVars, segVars, skillVars, digestVars, eduVars, handlerVars>>

notSkills == <<normVars, segVars, workVars, digestVars, eduVars, handlerVars>>

notEdu == <<normVars, segVars, workVars, skillVars, digestVars, handlerVars>>

notDigest == <<normVars, segVars, workVars, skillVars, eduVars, handlerVars>>

(***************************************************************************)
(* Characters and the String.prototype methods the source uses             *)
(***************************************************************************)
UpperCase == "ABCDEFGHIJKLMNOPQRSTUVWXYZ"

LowerCase == "abcdefghijklmnopqrstuvwxyz"

Digits == "0123456789"

Bullet == "@"

\* TLC evaluates an operator's argument when it is first used, so a loop
\* written as a recursion piles up its pending updates: Having(v, e) is e
\* with v evaluated first
Having(v, e) == IF v = v THEN e ELSE e

Ch(s, i) == SubSeq(s, i, i)

\* s.indexOf(sub, i - 1) + 1: the first 1-based position of sub in s at or
\* after i, 0 when there is none
\* the first position in lo..hi at which sub occurs in s, or 0; the range
\* is searched by halves, the left half first
RECURSIVE FirstHit(_, _, _, _)
FirstHit(s, sub, lo, hi) ==
  IF lo > hi THEN 0
  ELSE IF lo = hi THEN (IF SubSeq(s, lo, lo + Len(sub) - 1) = sub THEN lo ELSE 0)
  ELSE LET mid == (lo + hi) \div 2
           left == FirstHit(s, sub, lo, mid)
       IN IF left # 0 THEN left ELSE FirstHit(s, sub, mid + 1, hi)

\* indexOf from position i on, 1-based, 0 for none
IndexFrom(s, sub, i) == FirstHit(s, sub, i, Len(s) - Len(sub) + 1)

IndexOf(s, sub) == IndexFrom(s, sub, 1)

includes(s, sub) == IndexOf(s, sub) > 0

startsWith(s, sub) == Len(sub) <= Len(s) /\ SubSeq(s, 1, Len(sub)) = sub

UpperSet == {Ch(UpperCase, i) : i \in 1..26}

LowerSet == {Ch(LowerCase, i) : i \in 1..26}

DigitSet == {Ch(Digits, i) : i \in 1..10}

IsUpper(c) == c \in UpperSet

IsLower(c) == c \in LowerSet

IsDigit(c) == c \in DigitSet

IsLetter(c) == IsUpper(c) \/ IsLower(c)

\* the regular-expression class \s, and the characters trim() removes
IsSpace(c) == c \in {" ", "\t", "\n", "\r", "\f"}

LowerOf == [c \in UpperSet |-> Ch(LowerCase, IndexOf(UpperCase, c))]

UpperOf == [c \in LowerSet |-> Ch(UpperCase, IndexOf(LowerCase, c))]

LowerCh(c) == IF IsUpper(c) THEN LowerOf[c] ELSE c

\* the strings parts[lo], ..., parts[hi] put together, by halves
RECURSIVE ConcatRange(_, _, _)
ConcatRange(parts, lo, hi) ==
  IF lo > hi THEN ""
  ELSE IF lo = hi THEN parts[lo]
  ELSE ConcatRange(parts, lo, (lo + hi) \div 2) \o ConcatRange(parts, (lo + hi) \div 2 + 1, hi)

Concat(parts) == ConcatRange(parts, 1, Len(parts))

toLowerCase(s) == Concat([i \in 1..Len(s) |-> LowerCh(Ch(s, i))])

RECURSIVE trimStart(_)
trimStart(s) ==
  IF s = "" THEN ""
  ELSE IF IsSpace(Ch(s, 1)) THEN trimStart(SubSeq(s, 2, Len(s)))
  ELSE s

RECURSIVE trimEnd(_)
trimEnd(s) ==
  IF s = "" THEN ""
  ELSE IF IsSpace(Ch(s, Len(s))) THEN trimEnd(SubSeq(s, 1, Len(s) - 1))
  ELSE s

trim(s) == trimEnd(trimStart(s))

\* s.split(sep) for a one-character separator: always at least one piece
RECURSIVE split(_, _)
split(s, sep) ==
  LET p == IndexOf(s, sep)
  IN IF p = 0 THEN <<s>>
     ELSE <<SubSeq(s, 1, p - 1)>> \o split(SubSeq(s, p + 1, Len(s)), sep)

RECURSIVE join(_, _)
join(parts, sep) ==
  IF parts = <<>> THEN ""
  ELSE IF Len(parts) = 1 THEN parts[1]
  ELSE parts[1] \o sep \o join(Tail(parts), sep)

InsertAt(s, i, c) == SubSeq(s, 1, i) \o c \o SubSeq(s, i + 1, Len(s))

DeleteAt(s, i) == SubSeq(s, 1, i - 1) \o SubSeq(s, i + 1, Len(s))

\* arr.slice(from, to) with 0-based bounds, as JavaScript clamps them
slice(arr, from, to) ==
  LET lo == IF from < 0 THEN 0 ELSE from
      hi == IF to > Len(arr) THEN Len(arr) ELSE to
  IN IF hi <= lo THEN SubSeq(arr, 1, 0) ELSE SubSeq(arr, lo + 1, hi)

(***************************************************************************)
(* JavaScript objects with string keys: the entries in insertion order,    *)
(* as Object.keys, Object.entries and JSON.stringify enumerate them.       *)
(***************************************************************************)
EmptyObject == <<>>

Keys(o) == [i \in 1..Len(o) |-> o[i].k]

Has(o, key) == \E i \in 1..Len(o) : o[i].k = key

Get(o, key) == o[CHOOSE i \in 1..Len(o) : o[i].k = key].v

\* o[key] = value: a new key goes last, an existing key keeps its place
Put(o, key, value) ==
  IF Has(o, key)
  THEN [i \in 1..Len(o) |-> IF o[i].k = key THEN [k |-> key, v |-> value] ELSE o[i]]
  ELSE Append(o, [k |-> key, v |-> value])

(***************************************************************************)
(* normalizeHeader                                                         *)
(***************************************************************************)
\* .replace(/&/g, 'and')
ReplaceAmp(s) == Concat([i \in 1..Len(s) |-> IF Ch(s, i) = "&" THEN "and" ELSE Ch(s, i)])

\* .replace(/[^a-z0-9 ]/g, '')
StripNonAlnumSpace(s) ==
  Concat([i \in 1..Len(s) |->
            IF IsLower(Ch(s, i)) \/ IsDigit(Ch(s, i)) \/ Ch(s, i) = " " THEN Ch(s, i) ELSE ""])

\* .replace(/\s+/g, ' '): a run of whitespace leaves one space, at its start
CollapseSpaces(s) ==
  Concat([i \in 1..Len(s) |->
            IF ~IsSpace(Ch(s, i)) THEN Ch(s, i)
            ELSE IF i > 1 /\ IsSpace(Ch(s, i - 1)) THEN ""
            ELSE " "])

normalizeHeader(str) ==
  trim(CollapseSpaces(StripNonAlnumSpace(ReplaceAmp(toLowerCase(str)))))

(***************************************************************************)
(* normalizeHeader on its own: a header string, a variant of it that       *)
(* differs in letter case, in stripped punctuation and in the amount of    *)
(* whitespace between words, and the function applied once and twice.      *)
(***************************************************************************)
MaxNormLen == 3

MaxEdits == 2

NormAlphabet == {"A", "a", "1", "&", "-", " ", "\t"}

Punctuation == {"-"}

Whitespace == {" ", "\t"}

RECURSIVE StringsUpTo(_, _)
StringsUpTo(alphabet, n) ==
  IF n = 0 THEN {""}
  ELSE LET shorter == StringsUpTo(alphabet, n - 1)
       IN shorter \cup {s \o c : s \in shorter, c \in alphabet}

IsWordChar(c) == IsUpper(c) \/ IsLower(c) \/ IsDigit(c) \/ c = "&"

ToggleCh(c) ==
  IF IsUpper(c) THEN LowerCh(c)
  ELSE IF IsLower(c) THEN UpperOf[c]
  ELSE c

\* position i holds whitespace that separates two words of s
BetweenWords(s, i) ==
  /\ Ch(s, i) \in Whitespace
  /\ \E j \in 1..(i - 1) : IsWordChar(Ch(s, j))
  /\ \E j \in (i + 1)..Len(s) : IsWordChar(Ch(s, j))

NormOff ==
  /\ header = "" /\ variant = "" /\ edits = 0
  /\ normOrig = "" /\ normalized = "" /\ renormalized = "" /\ npc = "off"

NormInit ==
  /\ header \in StringsUpTo(NormAlphabet, MaxNormLen)
  /\ variant = header
  /\ edits = 0
  /\ normOrig = "" /\ normalized = "" /\ renormalized = ""
  /\ npc = "input"

Edit(s) ==
  /\ npc = "input"
  /\ edits < MaxEdits
  /\ s # variant
  /\ variant' = s
  /\ edits' = edits + 1
  /\ UNCHANGED <<header, normOrig, normalized, renormalized, npc, notNorm>>

ChangeCase == \E i \in 1..Len(variant) : Edit(InsertAt(DeleteAt(variant, i), i - 1, ToggleCh(Ch(variant, i))))

AddPunctuation == \E i \in 0..Len(variant), c \in Punctuation : Edit(InsertAt(variant, i, c))

DropPunctuation == \E i \in 1..Len(variant) : Ch(variant, i) \in Punctuation /\ Edit(DeleteAt(variant, i))

\* one more whitespace character next to whitespace that separates two words
WidenGap ==
  \E i \in 1..Len(variant), c \in Whitespace : BetweenWords(variant, i) /\ Edit(InsertAt(variant, i, c))

\* one whitespace character less in a gap that keeps at least one
NarrowGap ==
  \E i \in 1..Len(variant) :
    /\ BetweenWords(variant, i)
    /\ Ch(variant, i - 1) \in Whitespace \/ Ch(variant, i + 1) \in Whitespace
    /\ Edit(DeleteAt(variant, i))

Normalize ==
  /\ npc = "input"
  /\ normOrig' = normalizeHeader(header)
  /\ normalized' = normalizeHeader(variant)
  /\ npc' = "once"
  /\ UNCHANGED <<header, variant, edits, renormalized, notNorm>>

NormalizeAgain ==
  /\ npc = "once"
  /\ renormalized' = normalizeHeader(normalized)
  /\ npc' = "twice"
  /\ UNCHANGED <<header, variant, edits, normOrig, normalized, notNorm>>

NormNext ==
  \/ ChangeCase \/ AddPunctuation \/ DropPunctuation \/ WidenGap \/ NarrowGap
  \/ Normalize \/ NormalizeAgain

\* C7 (idempotence): normalizing a normalized header changes nothing.
NormalizeIdempotent == npc = "twice" => renormalized = normalized

\* C7 (insensitivity): a header and a variant of it that differs only in
\* letter case, in stripped punctuation and in the amount of whitespace
\* between words normalize to the same value.
NormalizeInsensitive == npc # "input" => normalized = normOrig

\* C7: normalizeHeader is idempotent and case/punctuation/whitespace-amount
\* insensitive.
C7_NormalizeIdempotentInsensitive == NormalizeIdempotent /\ NormalizeInsensitive

(***************************************************************************)
(* extractSectionsByLines                                                  *)
(***************************************************************************)
\* text.split('\n').map(l => l.trim())
SplitLines(t) == LET raw == split(t, "\n") IN [i \in 1..Len(raw) |-> trim(raw[i])]

NormalizeNames(names) == [i \in 1..Len(names) |-> normalizeHeader(names[i])]

\* the fuzzy test of the header scan: exact, or either one contains the other
HeaderMatches(normalizedLine, section) ==
  \/ normalizedLine = section
  \/ includes(normalizedLine, section)
  \/ includes(section, normalizedLine)

\* a scan in which a later matching line replaces the recorded index
RecordIndexLastWins(indices, section, lineIdx) == (section :> lineIdx) @@ indices

\* if (sectionIndices[section] === undefined) sectionIndices[section] = idx
RecordIndex(indices, section, lineIdx) ==
  IF section \in DOMAIN indices THEN indices ELSE (section :> lineIdx) @@ indices

\* the inner forEach over the candidates at list positions lo..hi, in list
\* order, for the line at 0-based lineIdx; the range is walked by halves
RECURSIVE ScanCandidates(_, _, _, _, _, _)
ScanCandidates(indices, normalizedSectionNames, lo, hi, normalizedLine, lineIdx) ==
  IF lo > hi THEN indices
  ELSE IF lo = hi
       THEN IF HeaderMatches(normalizedLine, normalizedSectionNames[lo])
            THEN RecordIndex(indices, normalizedSectionNames[lo], lineIdx)
            ELSE indices
  ELSE LET mid == (lo + hi) \div 2
           scanned == ScanCandidates(indices, normalizedSectionNames, lo, mid,
                                     normalizedLine, lineIdx)
       IN Having(scanned,
                 ScanCandidates(scanned, normalizedSectionNames, mid + 1, hi,
                                normalizedLine, lineIdx))

ScanLine(indices, normalizedSectionNames, line, lineIdx) ==
  ScanCandidates(indices, normalizedSectionNames, 1, Len(normalizedSectionNames),
                 normalizeHeader(line), lineIdx)

\* the loop over j = i + 1 ..: the first later candidate of the list whose
\* recorded index is greater than startIdx ends the section
RECURSIVE FindEnd(_, _, _, _, _)
FindEnd(indices, normalizedSectionNames, j, startIdx, nLines) ==
  IF j > Len(normalizedSectionNames) THEN nLines
  ELSE IF /\ normalizedSectionNames[j] \in DOMAIN indices
          /\ indices[normalizedSectionNames[j]] > startIdx
       THEN indices[normalizedSectionNames[j]]
       ELSE FindEnd(indices, normalizedSectionNames, j + 1, startIdx, nLines)

\* the content of the candidate at list position i (1-based)
SectionContent(ls, indices, normalizedSectionNames, i) ==
  LET section == normalizedSectionNames[i]
  IN IF section \in DOMAIN indices
     THEN LET startIdx == indices[section]
              endIdx == FindEnd(indices, normalizedSectionNames, i + 1, startIdx, Len(ls))
          IN trim(join(slice(ls, startIdx + 1, endIdx), "\n"))
     ELSE ""

\* the second forEach, over the candidates at list positions lo..hi in list
\* order
RECURSIVE ExtractContents(_, _, _, _, _, _)
ExtractContents(result, ls, indices, normalizedSectionNames, lo, hi) ==
  IF lo > hi THEN result
  ELSE IF lo = hi
       THEN Put(result, normalizedSectionNames[lo],
                SectionContent(ls, indices, normalizedSectionNames, lo))
  ELSE LET mid == (lo + hi) \div 2
           extracted == ExtractContents(result, ls, indices, normalizedSectionNames, lo, mid)
       IN Having(extracted,
                 ExtractContents(extracted, ls, indices, normalizedSectionNames, mid + 1, hi))

\* the first forEach, over the lines at positions lo..hi in order
RECURSIVE ScanLines(_, _, _, _, _)
ScanLines(indices, normalizedSectionNames, ls, lo, hi) ==
  IF lo > hi THEN indices
  ELSE IF lo = hi THEN ScanLine(indices, normalizedSectionNames, ls[lo], lo - 1)
  ELSE LET mid == (lo + hi) \div 2
           scanned == ScanLines(indices, normalizedSectionNames, ls, lo, mid)
       IN Having(scanned, ScanLines(scanned, normalizedSectionNames, ls, mid + 1, hi))

extractSectionsByLines(t, names) ==
  LET ls == SplitLines(t)
      normalizedSectionNames == NormalizeNames(names)
  IN ExtractContents(EmptyObject, ls,
                     ScanLines(<<>>, normalizedSectionNames, ls, 1, Len(ls)),
                     normalizedSectionNames, 1, Len(normalizedSectionNames))

(***************************************************************************)
(* extractSectionsByLines on its own, the header scan one line at a time   *)
(***************************************************************************)
MaxLines == 3

MaxCands == 2

SegLinePool == {"", " SKILLS:", "Education", "Python, Go"}

SegNamePool == {"Skills", "Education", "Tools & Skills"}

RECURSIVE SeqsUpTo(_, _)
SeqsUpTo(S, n) ==
  IF n = 0 THEN {<<>>}
  ELSE LET shorter == SeqsUpTo(S, n - 1)
       IN shorter \cup {Append(q, x) : q \in shorter, x \in S}

\* a candidate list names each section once
NoRepeats(q) == \A i, j \in 1..Len(q) : q[i] = q[j] => i = j

SegOff ==
  /\ text = "" /\ sectionNames = <<>> /\ lines = <<>> /\ idx = 0
  /\ sectionIndices = <<>> /\ sections = EmptyObject /\ spc = "off"

SegInit ==
  /\ text \in {join(ls, "\n") : ls \in SeqsUpTo(SegLinePool, MaxLines) \ {<<>>}}
  /\ sectionNames \in {q \in SeqsUpTo(SegNamePool, MaxCands) \ {<<>>} : NoRepeats(q)}
  /\ lines = <<>> /\ idx = 0 /\ sectionIndices = <<>> /\ sections = EmptyObject
  /\ spc = "split"

SegSplit ==
  /\ spc = "split"
  /\ lines' = SplitLines(text)
  /\ spc' = "scan"
  /\ UNCHANGED <<text, sectionNames, idx, sectionIndices, sections, notSeg>>

SegScanLine ==
  /\ spc = "scan"
  /\ idx < Len(lines)
  /\ sectionIndices' = ScanLine(sectionIndices, NormalizeNames(sectionNames), lines[idx + 1], idx)
  /\ idx' = idx + 1
  /\ UNCHANGED <<text, sectionNames, lines, sections, spc, notSeg>>

SegExtract ==
  /\ spc = "scan"
  /\ idx = Len(lines)
  /\ sections' = ExtractContents(EmptyObject, lines, sectionIndices, NormalizeNames(sectionNames),
                                1, Len(sectionNames))
  /\ spc' = "done"
  /\ UNCHANGED <<text, sectionNames, lines, idx, sectionIndices, notSeg>>

SegNext == SegSplit \/ SegScanLine \/ SegExtract


(***************************************************************************)
(* cleanArray and parseWorkExperience                                      *)
(***************************************************************************)
\* Array.from(new Set(arr)): the first occurrence of each value, in order
RECURSIVE Unique(_, _)
Unique(arr, seen) ==
  IF arr = <<>> THEN <<>>
  ELSE IF Head(arr) \in seen THEN Unique(Tail(arr), seen)
  ELSE <<Head(arr)>> \o Unique(Tail(arr), seen \cup {Head(arr)})

TrimAll(arr) == [i \in 1..Len(arr) |-> trim(arr[i])]

NonEmpty(x) == x # ""

\* a cleanArray that trims and drops empties but keeps duplicates
cleanArrayKeepDuplicates(arr) == SelectSeq(TrimAll(arr), NonEmpty)

\* arr.map(trim).filter(Boolean), then the Set: arrays of strings only
cleanArray(arr) == Unique(SelectSeq(TrimAll(arr), NonEmpty), {})

\* text.split('\n').filter(line => line.trim())
NonBlankLine(line) == trim(line) # ""

NonBlankLines(t) == SelectSeq(split(t, "\n"), NonBlankLine)

Roles ==
  {"Engineer", "Developer", "Manager", "Director", "Lead", "Analyst", "Consultant",
   "Specialist", "Coordinator", "Assistant", "Intern"}

\* /^[A-Z][a-zA-Z\s&]+(?:Engineer|...|Intern)/.test(line)
IsTitleLine(line) ==
  /\ Len(line) >= 3
  /\ IsUpper(Ch(line, 1))
  /\ \E p \in 3..Len(line) :
       /\ \A q \in 2..(p - 1) : IsLetter(Ch(line, q)) \/ IsSpace(Ch(line, q)) \/ Ch(line, q) = "&"
       /\ \E r \in Roles : startsWith(SubSeq(line, p, Len(line)), r)

\* /\d{4}/.test(line)
HasYear(line) ==
  \E p \in 1..(Len(line) - 3) : \A q \in p..(p + 3) : IsDigit(Ch(line, q))

\* /[A-Z]{2}$/.test(line)
EndsInTwoCapitals(line) ==
  Len(line) >= 2 /\ IsUpper(Ch(line, Len(line))) /\ IsUpper(Ch(line, Len(line) - 1))

\* line.match(/\(([^)]+)\)/): the pairs <<p, q>> with "(" at p, the first ")"
\* after p at q, and something between them
ParenMatches(line) ==
  {pq \in (1..Len(line)) \X (1..Len(line)) :
     /\ Ch(line, pq[1]) = "("
     /\ Ch(line, pq[2]) = ")"
     /\ pq[2] > pq[1] + 1
     /\ \A q \in (pq[1] + 1)..(pq[2] - 1) : Ch(line, q) # ")"}

\* companyMatch[1] of the leftmost match
CompanyOf(line) ==
  LET pq == CHOOSE m \in ParenMatches(line) : \A n \in ParenMatches(line) : m[1] <= n[1]
  IN SubSeq(line, pq[1] + 1, pq[2] - 1)

IsOrganizationLine(line) == includes(line, "(") /\ includes(line, ")")

IsDatesLine(line) ==
  /\ HasYear(line)
  /\ \/ includes(line, "Present") \/ includes(line, "Current")
     \/ includes(line, "-") \/ includes(line, "to")

IsLocationLine(line) == includes(line, ",") /\ EndsInTwoCapitals(line)

IsHighlightLine(line) ==
  startsWith(line, Bullet) \/ startsWith(line, "-") \/ startsWith(line, "*")

\* a chain that tests for a bullet before it tests for dates
LineKindBulletsFirst(line, cur) ==
  IF IsTitleLine(line) THEN "title"
  ELSE IF IsOrganizationLine(line) THEN "organization"
  ELSE IF IsHighlightLine(line) THEN "highlight"
  ELSE IF IsDatesLine(line) THEN "dates"
  ELSE IF IsLocationLine(line) THEN "location"
  ELSE IF Len(line) > 20 /\ ~Has(cur, "summary") THEN "summary"
  ELSE "none"

\* the branch of the if / else-if chain a line takes
LineKind(line, cur) ==
  IF IsTitleLine(line) THEN "title"
  ELSE IF IsOrganizationLine(line) THEN "organization"
  ELSE IF IsDatesLine(line) THEN "dates"
  ELSE IF IsLocationLine(line) THEN "location"
  ELSE IF IsHighlightLine(line) THEN "highlight"
  ELSE IF Len(line) > 20 /\ ~Has(cur, "summary") THEN "summary"
  ELSE "none"

\* currentExp after the (trimmed) line
ExpAfterLine(cur, line) ==
  LET kind == LineKind(line, cur)
  IN CASE kind = "title" -> Put(EmptyObject, "title", line)
       [] kind = "organization" ->
            IF ParenMatches(line) # {} THEN Put(cur, "organization", CompanyOf(line)) ELSE cur
       [] kind = "dates" -> Put(cur, "dates", line)
       [] kind = "location" -> Put(cur, "location", line)
       [] kind = "highlight" ->
            Put(cur, "highlights",
                Append(IF Has(cur, "highlights") THEN Get(cur, "highlights") ELSE <<>>,
                       trim(SubSeq(line, 2, Len(line)))))
       [] kind = "summary" -> Put(cur, "summary", line)
       [] OTHER -> cur

\* experiences after the (trimmed) line: a title line pushes a non-empty entry
ExperiencesAfterLine(exps, cur, line) ==
  IF IsTitleLine(line) /\ Len(cur) > 0 THEN Append(exps, cur) ELSE exps

\* the flush after the loop
Flush(exps, cur) == IF Len(cur) > 0 THEN Append(exps, cur) ELSE exps

\* experiences.map(exp => ({...exp, highlights: cleanArray(exp.highlights || [])}))
CleanHighlights(exps) ==
  [n \in 1..Len(exps) |->
     Put(exps[n], "highlights",
         cleanArray(IF Has(exps[n], "highlights") THEN Get(exps[n], "highlights") ELSE <<>>))]

RECURSIVE ParseExpLines(_, _, _, _)
ParseExpLines(ls, n, cur, exps) ==
  IF n > Len(ls) THEN CleanHighlights(Flush(exps, cur))
  ELSE ParseExpLines(ls, n + 1, ExpAfterLine(cur, trim(ls[n])),
                     ExperiencesAfterLine(exps, cur, trim(ls[n])))

parseWorkExperience(t) ==
  IF t = "" THEN <<>> ELSE ParseExpLines(NonBlankLines(t), 1, EmptyObject, <<>>)

(***************************************************************************)
(* parseWorkExperience on its own, one line at a time                      *)
(***************************************************************************)
MaxWorkLines == 3

TitlePool == {"Senior Engineer", "Research & Teaching Assistant"}

OrganizationPool == {"(Acme Corp)"}

DatesPool == {"2020 - Present"}

LocationPool == {"Austin, TX"}

SummaryPool == {"This is a long enough summary line."}

\* the three glyphs; the third repeats the first once stripped and trimmed
HighlightLines == <<"@ Built thing one", "* Fixed it", "-  Built thing one">>

\* lines that fit several patterns or none
OddLinePool == {"- Shipped 2020 release", "Notes", "Another long free-text line, too."}

\* lines with parentheses and a year: one whose parentheses hold text, one
\* whose parentheses hold nothing
ParenthesizedYearPool == {"(2020 - 2021)", "() 2020 - 2021"}

WorkLinePool ==
  TitlePool \cup OrganizationPool \cup DatesPool \cup LocationPool \cup SummaryPool
  \cup {HighlightLines[n] : n \in 1..2} \cup OddLinePool

RECURSIVE Orderings(_)
Orderings(q) ==
  IF q = <<>> THEN {<<>>}
  ELSE UNION {{<<q[n]>> \o rest :
                 rest \in Orderings(SubSeq(q, 1, n - 1) \o SubSeq(q, n + 1, Len(q)))} :
              n \in 1..Len(q)}

\* one title line, then one line of each other kind and the highlight lines
\* in any order
OneEntryInputs ==
  {<<t>> \o rest :
     t \in {"Senior Engineer"},
     rest \in UNION {Orderings(<<o, d, l, m>> \o HighlightLines) :
                       o \in OrganizationPool, d \in DatesPool,
                       l \in LocationPool, m \in SummaryPool}}

\* a parenthesized-year line on its own, after a title line, and after a
\* title line and a dates line
ParenthesizedYearInputs ==
  {pre \o <<l>> :
     pre \in {<<>>, <<"Senior Engineer">>, <<"Senior Engineer", "2020 - Present">>},
     l \in ParenthesizedYearPool}

WorkOff ==
  /\ expText = "" /\ expLines = <<>> /\ expI = 0 /\ currentExp = EmptyObject
  /\ experiences = <<>> /\ expResult = <<>> /\ wpc = "off"

WorkInit ==
  /\ expText \in {join(ls, "\n") \o "\n" : ls \in SeqsUpTo(WorkLinePool, MaxWorkLines) \cup OneEntryInputs
                                                     \cup ParenthesizedYearInputs}
                 \cup {""}
  /\ expLines = <<>> /\ expI = 0 /\ currentExp = EmptyObject
  /\ experiences = <<>> /\ expResult = <<>>
  /\ wpc = "start"

\* if (!text) return []
WorkEmpty ==
  /\ wpc = "start"
  /\ expText = ""
  /\ expResult' = <<>>
  /\ wpc' = "done"
  /\ UNCHANGED <<expText, expLines, expI, currentExp, experiences, notWork>>

WorkSplit ==
  /\ wpc = "start"
  /\ expText # ""
  /\ expLines' = NonBlankLines(expText)
  /\ wpc' = "loop"
  /\ UNCHANGED <<expText, expI, currentExp, experiences, expResult, notWork>>

WorkLine ==
  /\ wpc = "loop"
  /\ expI < Len(expLines)
  /\ currentExp' = ExpAfterLine(currentExp, trim(expLines[expI + 1]))
  /\ experiences' = ExperiencesAfterLine(experiences, currentExp, trim(expLines[expI + 1]))
  /\ expI' = expI + 1
  /\ UNCHANGED <<expText, expLines, expResult, wpc, notWork>>

WorkReturn ==
  /\ wpc = "loop"
  /\ expI = Len(expLines)
  /\ experiences' = Flush(experiences, currentExp)
  /\ expResult' = CleanHighlights(Flush(experiences, currentExp))
  /\ wpc' = "done"
  /\ UNCHANGED <<expText, expLines, expI, currentExp, notWork>>

WorkNext == WorkEmpty \/ WorkSplit \/ WorkLine \/ WorkReturn

(***************************************************************************)
(* parseSkills                                                             *)
(***************************************************************************)
\* /^[A-Z][a-zA-Z\s]+:$/.test(trimmed)
IsCategoryHeader(trimmed) ==
  /\ Len(trimmed) >= 3
  /\ IsUpper(Ch(trimmed, 1))
  /\ Ch(trimmed, Len(trimmed)) = ":"
  /\ \A q \in 2..(Len(trimmed) - 1) : IsLetter(Ch(trimmed, q)) \/ IsSpace(Ch(trimmed, q))

\* trimmed.replace(':', ''): the first colon only
RemoveFirstColon(trimmed) ==
  LET p == IndexOf(trimmed, ":")
  IN IF p = 0 THEN trimmed ELSE DeleteAt(trimmed, p)

IsSkillList(trimmed) ==
  includes(trimmed, ",") \/ startsWith(trimmed, Bullet) \/ startsWith(trimmed, "-")

\* trimmed.replace(/^[\u2022\-]\s*/, '')
StripBullet(trimmed) ==
  IF startsWith(trimmed, Bullet) \/ startsWith(trimmed, "-")
  THEN trimStart(SubSeq(trimmed, 2, Len(trimmed)))
  ELSE trimmed

\* .split(',').map(s => s.trim()).filter(s => s.length > 0)
SkillList(trimmed) == SelectSeq(TrimAll(split(StripBullet(trimmed), ",")), NonEmpty)

SingleSkillLimit == 50

IsSingleSkill(trimmed) == Len(trimmed) > 0 /\ Len(trimmed) < SingleSkillLimit

\* skills[category].push(...items), the list created when it is missing
PushSkills(sk, category, items) ==
  Put(sk, category, (IF Has(sk, category) THEN Get(sk, category) ELSE <<>>) \o items)

\* currentCategory after a line
CategoryAfterLine(category, trimmed) ==
  IF IsCategoryHeader(trimmed) THEN RemoveFirstColon(trimmed) ELSE category

\* skills[currentCategory] = [] on a category header
OpenCategory(sk, category) == Put(sk, category, <<>>)

\* skills after a line
SkillsAfterLine(sk, category, trimmed) ==
  IF IsCategoryHeader(trimmed) THEN OpenCategory(sk, RemoveFirstColon(trimmed))
  ELSE IF IsSkillList(trimmed) THEN PushSkills(sk, category, SkillList(trimmed))
  ELSE IF IsSingleSkill(trimmed) THEN PushSkills(sk, category, <<trimmed>>)
  ELSE sk

\* Object.keys(skills).forEach(category => skills[category] = cleanArray(...))
CleanSkills(sk) == [n \in 1..Len(sk) |-> [k |-> sk[n].k, v |-> cleanArray(sk[n].v)]]

RECURSIVE ParseSkillLines(_, _, _, _)
ParseSkillLines(ls, n, category, sk) ==
  IF n > Len(ls) THEN CleanSkills(sk)
  ELSE ParseSkillLines(ls, n + 1, CategoryAfterLine(category, trim(ls[n])),
                       SkillsAfterLine(sk, category, trim(ls[n])))

parseSkills(t) ==
  IF t = "" THEN EmptyObject ELSE ParseSkillLines(NonBlankLines(t), 1, "Other", EmptyObject)

(***************************************************************************)
(* parseSkills on its own, one line at a time                              *)
(***************************************************************************)
MaxSkillLines == 4

CategoryLinePool == {"Languages:", "Tools:"}

SkillLinePool == {"Python, Go", "Git", "@ Go, Rust", "- Git"}

\* 50 characters or more and no comma: no category and no skill
LongLinePool == {"Seasoned practitioner of many languages and platforms"}

SkillsOff ==
  /\ skillText = "" /\ skillLines = <<>> /\ skillI = 0 /\ currentCategory = ""
  /\ skills = EmptyObject /\ skillResult = EmptyObject /\ kpc = "off"

SkillsInit ==
  /\ skillText \in {join(ls, "\n") \o "\n" :
                      ls \in SeqsUpTo(CategoryLinePool \cup SkillLinePool \cup LongLinePool,
                                     MaxSkillLines) \ {<<>>}}
                   \cup {""}
  /\ skillLines = <<>> /\ skillI = 0 /\ currentCategory = ""
  /\ skills = EmptyObject /\ skillResult = EmptyObject
  /\ kpc = "start"

\* if (!text) return {}
SkillsEmpty ==
  /\ kpc = "start"
  /\ skillText = ""
  /\ skillResult' = EmptyObject
  /\ kpc' = "done"
  /\ UNCHANGED <<skillText, skillLines, skillI, currentCategory, skills, notSkills>>

SkillsSplit ==
  /\ kpc = "start"
  /\ skillText # ""
  /\ skillLines' = NonBlankLines(skillText)
  /\ currentCategory' = "Other"
  /\ kpc' = "loop"
  /\ UNCHANGED <<skillText, skillI, skills, skillResult, notSkills>>

SkillsLine ==
  /\ kpc = "loop"
  /\ skillI < Len(skillLines)
  /\ skills' = SkillsAfterLine(skills, currentCategory, trim(skillLines[skillI + 1]))
  /\ currentCategory' = CategoryAfterLine(currentCategory, trim(skillLines[skillI + 1]))
  /\ skillI' = skillI + 1
  /\ UNCHANGED <<skillText, skillLines, skillResult, kpc, notSkills>>

SkillsReturn ==
  /\ kpc = "loop"
  /\ skillI = Len(skillLines)
  /\ skillResult' = CleanSkills(skills)
  /\ kpc' = "done"
  /\ UNCHANGED <<skillText, skillLines, skillI, currentCategory, skills, notSkills>>

SkillsNext == SkillsEmpty \/ SkillsSplit \/ SkillsLine \/ SkillsReturn

(***************************************************************************)
(* buildRelevantResumeText                                                 *)
(***************************************************************************)
\* Object.entries(sections).filter(...): non-empty contents, the first of
\* each trimmed content only
\* the filter over the entries at positions lo..hi in order: kept holds the
\* entries that passed, whose trimmed contents are the set seen
RECURSIVE FilterEntries(_, _, _, _)
FilterEntries(entries, lo, hi, kept) ==
  IF lo > hi THEN kept
  ELSE IF lo = hi
       THEN IF /\ entries[lo].v # ""
               /\ Len(trim(entries[lo].v)) > 0
               /\ \A m \in 1..Len(kept) : trim(kept[m].v) # trim(entries[lo].v)
            THEN Append(kept, entries[lo])
            ELSE kept
  ELSE LET mid == (lo + hi) \div 2
           left == FilterEntries(entries, lo, mid, kept)
       IN Having(left, FilterEntries(entries, mid + 1, hi, left))

UniqueNonEmptyEntries(entries) == FilterEntries(entries, 1, Len(entries), <<>>)

\* one entry put into a list sorted longest first, behind its equals
RECURSIVE InsertByLength(_, _)
InsertByLength(sorted, e) ==
  IF sorted = <<>> THEN <<e>>
  ELSE IF Len(Head(sorted).v) >= Len(e.v)
       THEN <<Head(sorted)>> \o InsertByLength(Tail(sorted), e)
       ELSE <<e>> \o sorted

\* sectionEntries.sort((a, b) => b[1].length - a[1].length): stable
RECURSIVE SortByLengthDesc(_)
SortByLengthDesc(entries) ==
  IF entries = <<>> THEN <<>>
  ELSE LET n == Len(entries)
       IN InsertByLength(SortByLengthDesc(SubSeq(entries, 1, n - 1)), entries[n])

MinTruncatedLength == 200

DefaultMaxTotalLength == 8000

Block(name, content) == "=== " \o name \o " ===\n" \o content

\* a truncation that forgets to cut
WholeContent(content, allowed) == content

\* content.slice(0, allowed)
TruncatedContent(content, allowed) == slice(content, 0, allowed)

\* a loop that goes on to the next entry where the code breaks
DigestStepKeepsGoing(entry, total, blocks, budget) ==
  IF total + Len(entry.v) > budget
  THEN LET allowed == budget - total
       IN IF allowed > MinTruncatedLength
          THEN [total |-> total + allowed,
                blocks |-> Append(blocks, Block(entry.k, TruncatedContent(entry.v, allowed))),
                stop |-> FALSE]
          ELSE [total |-> total, blocks |-> blocks, stop |-> FALSE]
  ELSE [total |-> total + Len(entry.v),
        blocks |-> Append(blocks, Block(entry.k, entry.v)),
        stop |-> FALSE]

\* one iteration of the greedy loop: [total, blocks, stop]
DigestStep(entry, total, blocks, budget) ==
  IF total + Len(entry.v) > budget
  THEN LET allowed == budget - total
       IN IF allowed > MinTruncatedLength
          THEN [total |-> total + allowed,
                blocks |-> Append(blocks, Block(entry.k, TruncatedContent(entry.v, allowed))),
                stop |-> TRUE]
          ELSE [total |-> total, blocks |-> blocks, stop |-> TRUE]
  ELSE [total |-> total + Len(entry.v),
        blocks |-> Append(blocks, Block(entry.k, entry.v)),
        stop |-> FALSE]

RECURSIVE DigestLoop(_, _, _, _, _)
DigestLoop(entries, n, total, blocks, budget) ==
  IF n > Len(entries) THEN blocks
  ELSE LET step == DigestStep(entries[n], total, blocks, budget)
       IN IF step.stop THEN step.blocks
          ELSE DigestLoop(entries, n + 1, step.total, step.blocks, budget)

buildRelevantResumeText(secs, budget) ==
  join(DigestLoop(SortByLengthDesc(UniqueNonEmptyEntries(secs)), 1, 0, <<>>, budget),
       "\n\n")

(***************************************************************************)
(* buildRelevantResumeText on its own, one loop iteration at a time        *)
(***************************************************************************)
MaxSections == 3

DigestNames == <<"experience", "education", "skills", "tools", "interests">>

Repeat(c, n) == Concat([i \in 1..n |-> c])

ContentPool ==
  {"", "  ", "Git", Repeat("a", 300), Repeat("a", 250), Repeat("b", 250),
   " " \o Repeat("a", 250), Repeat(" ", 50) \o Repeat("a", 201)}

BudgetPool == {0, 200, 201, 300, 452, 500, 501, DefaultMaxTotalLength}

DigestOff ==
  /\ digestSections = EmptyObject /\ maxTotalLength = 0 /\ sectionEntries = <<>>
  /\ entryI = 0 /\ totalLength = 0 /\ included = <<>> /\ digest = "" /\ dpc = "off"

DigestInit ==
  /\ digestSections \in
       {[n \in 1..MaxSections |-> [k |-> DigestNames[n], v |-> f[n]]] :
          f \in [1..MaxSections -> ContentPool]}
  /\ maxTotalLength \in BudgetPool
  /\ sectionEntries = <<>> /\ entryI = 0 /\ totalLength = 0
  /\ included = <<>> /\ digest = ""
  /\ dpc = "start"

DigestSelect ==
  /\ dpc = "start"
  /\ sectionEntries' = SortByLengthDesc(UniqueNonEmptyEntries(digestSections))
  /\ dpc' = "loop"
  /\ UNCHANGED <<digestSections, maxTotalLength, entryI, totalLength, included, digest,
                 notDigest>>

DigestIterate ==
  /\ dpc = "loop"
  /\ entryI < Len(sectionEntries)
  /\ LET step == DigestStep(sectionEntries[entryI + 1], totalLength, included, maxTotalLength)
     IN /\ totalLength' = step.total
        /\ included' = step.blocks
        /\ dpc' = IF step.stop THEN "join" ELSE "loop"
  /\ entryI' = entryI + 1
  /\ UNCHANGED <<digestSections, maxTotalLength, sectionEntries, digest, notDigest>>

DigestExhausted ==
  /\ dpc = "loop"
  /\ entryI = Len(sectionEntries)
  /\ dpc' = "join"
  /\ UNCHANGED <<digestSections, maxTotalLength, sectionEntries, entryI, totalLength,
                 included, digest, notDigest>>

DigestReturn ==
  /\ dpc = "join"
  /\ digest' = join(included, "\n\n")
  /\ dpc' = "done"
  /\ UNCHANGED <<digestSections, maxTotalLength, sectionEntries, entryI, totalLength,
                 included, notDigest>>

DigestNext == DigestSelect \/ DigestIterate \/ DigestExhausted \/ DigestReturn

(***************************************************************************)
(* parseEducation                                                          *)
(***************************************************************************)
\* a case-insensitive search for one of several words: /a|b|c/i.test(line)
HasAnyWord(line, words) == \E w \in words : includes(toLowerCase(line), w)

DegreeWords ==
  {"bachelor", "master", "phd", "doctorate", "associate", "certificate", "diploma"}

InstitutionWords == {"university", "college", "institute", "school"}

HonorsWords == {"gpa", "honors", "magna", "summa", "cum", "dean"}

IsDegreeLine(line) == HasAnyWord(line, DegreeWords)

\* currentEdu after the (trimmed) line
EduAfterLine(cur, line) ==
  IF IsDegreeLine(line) THEN Put(EmptyObject, "degree", line)
  ELSE IF HasAnyWord(line, InstitutionWords) /\ ~Has(cur, "institution")
       THEN Put(cur, "institution", line)
  ELSE IF HasYear(line) THEN Put(cur, "dates", line)
  ELSE IF IsLocationLine(line) THEN Put(cur, "location", line)
  ELSE IF HasAnyWord(line, HonorsWords) THEN Put(cur, "honors", line)
  ELSE cur

EducationAfterLine(edus, cur, line) ==
  IF IsDegreeLine(line) /\ Len(cur) > 0 THEN Append(edus, cur) ELSE edus

RECURSIVE ParseEduLines(_, _, _, _)
ParseEduLines(ls, n, cur, edus) ==
  IF n > Len(ls) THEN Flush(edus, cur)
  ELSE ParseEduLines(ls, n + 1, EduAfterLine(cur, trim(ls[n])),
                     EducationAfterLine(edus, cur, trim(ls[n])))

parseEducation(t) ==
  IF t = "" THEN <<>> ELSE ParseEduLines(NonBlankLines(t), 1, EmptyObject, <<>>)

(***************************************************************************)
(* parseEducation on its own, one line at a time                           *)
(***************************************************************************)
MaxEduLines == 3

DegreePool == {"Bachelor of Science", "PHD, Physics"}

InstitutionPool == {"State University", "Tech Institute"}

EduDatesPool == {"2016 - 2020", "Class of 2021"}

HonorsPool == {"Magna Cum Laude", "GPA 3.9"}

EduLinePool ==
  DegreePool \cup InstitutionPool \cup EduDatesPool \cup LocationPool \cup HonorsPool
  \cup {"Notes"}

EduOff ==
  /\ eduText = "" /\ eduLines = <<>> /\ eduI = 0 /\ currentEdu = EmptyObject
  /\ education = <<>> /\ eduResult = <<>> /\ epc = "off"

EduInit ==
  /\ eduText \in {join(ls, "\n") \o "\n" : ls \in SeqsUpTo(EduLinePool, MaxEduLines)}
                 \cup {""}
  /\ eduLines = <<>> /\ eduI = 0 /\ currentEdu = EmptyObject
  /\ education = <<>> /\ eduResult = <<>>
  /\ epc = "start"

\* if (!text) return []
EduEmpty ==
  /\ epc = "start"
  /\ eduText = ""
  /\ eduResult' = <<>>
  /\ epc' = "done"
  /\ UNCHANGED <<eduText, eduLines, eduI, currentEdu, education, notEdu>>

EduSplit ==
  /\ epc = "start"
  /\ eduText # ""
  /\ eduLines' = NonBlankLines(eduText)
  /\ epc' = "loop"
  /\ UNCHANGED <<eduText, eduI, currentEdu, education, eduResult, notEdu>>

EduLine ==
  /\ epc = "loop"
  /\ eduI < Len(eduLines)
  /\ currentEdu' = EduAfterLine(currentEdu, trim(eduLines[eduI + 1]))
  /\ education' = EducationAfterLine(education, currentEdu, trim(eduLines[eduI + 1]))
  /\ eduI' = eduI + 1
  /\ UNCHANGED <<eduText, eduLines, eduResult, epc, notEdu>>

EduReturn ==
  /\ epc = "loop"
  /\ eduI = Len(eduLines)
  /\ education' = Flush(education, currentEdu)
  /\ eduResult' = Flush(education, currentEdu)
  /\ epc' = "done"
  /\ UNCHANGED <<eduText, eduLines, eduI, currentEdu, notEdu>>

EduNext == EduEmpty \/ EduSplit \/ EduLine \/ EduReturn

(***************************************************************************)
(* extractContactInfo                                                      *)
(***************************************************************************)
\* the end of the run of lower-case letters that starts at position p, or
\* p - 1 when there is none
RECURSIVE LowerRunEnd(_, _)
LowerRunEnd(s, p) ==
  IF p <= Len(s) /\ IsLower(Ch(s, p)) THEN LowerRunEnd(s, p + 1) ELSE p - 1

\* [A-Z][a-z]+ at position p: the position of its last letter, or 0
CapWordEnd(s, p) ==
  IF p <= Len(s) /\ IsUpper(Ch(s, p)) /\ LowerRunEnd(s, p + 1) > p
  THEN LowerRunEnd(s, p + 1) ELSE 0

\* /^([A-Z][a-z]+ [A-Z][a-z]+)/m : two capitalized words at the start of a
\* line; the end of the match that starts at p, or 0
NameEnd(s, p) ==
  LET e1 == CapWordEnd(s, p)
  IN IF e1 > 0 /\ Ch(s, e1 + 1) = " " THEN CapWordEnd(s, e1 + 2) ELSE 0

LineStarts(s) == {1} \cup {p \in 2..Len(s) : Ch(s, p - 1) = "\n"}

NameOf(s) ==
  LET starts == {p \in LineStarts(s) : NameEnd(s, p) > 0}
  IN IF starts = {} THEN ""
     ELSE LET p == CHOOSE x \in starts : \A y \in starts : x <= y
          IN SubSeq(s, p, NameEnd(s, p))

IsSeparator(c) == c = "," \/ IsSpace(c)

\* the ends of [A-Z][a-z]+(?:[,\s]+[A-Z][a-z]+)* for a first word that ends
\* at e: e itself and, over every run of separators, each further word
RECURSIVE WordListEnds(_, _)
WordListEnds(s, e) ==
  {e} \cup UNION {WordListEnds(s, CapWordEnd(s, q)) :
                   q \in {x \in (e + 2)..Len(s) :
                            /\ \A y \in (e + 1)..(x - 1) : IsSeparator(Ch(s, y))
                            /\ CapWordEnd(s, x) > 0}}

RECURSIVE SpaceRunEnd(_, _)
SpaceRunEnd(s, p) ==
  IF p <= Len(s) /\ IsSpace(Ch(s, p)) THEN SpaceRunEnd(s, p + 1) ELSE p - 1

\* ,\s*[A-Z]{2} after position e: the position of the second capital, or 0
StateEnd(s, e) ==
  LET q == SpaceRunEnd(s, e + 2) + 1
  IN IF e + 1 <= Len(s) /\ Ch(s, e + 1) = "," /\ q + 1 <= Len(s)
        /\ IsUpper(Ch(s, q)) /\ IsUpper(Ch(s, q + 1))
     THEN q + 1 ELSE 0

\* /([A-Z][a-z]+(?:[,\s]+[A-Z][a-z]+)*,\s*[A-Z]{2})/ from p: the end of the
\* match the greedy search settles on (the longest word list), or 0
LocationEnd(s, p) ==
  IF CapWordEnd(s, p) = 0 THEN 0
  ELSE LET ends == {e \in WordListEnds(s, CapWordEnd(s, p)) : StateEnd(s, e) > 0}
       IN IF ends = {} THEN 0
          ELSE StateEnd(s, CHOOSE e \in ends : \A f \in ends : e >= f)

LocationOf(s) ==
  LET starts == {p \in 1..Len(s) : LocationEnd(s, p) > 0}
  IN IF starts = {} THEN ""
     ELSE LET p == CHOOSE x \in starts : \A y \in starts : x <= y
          IN SubSeq(s, p, LocationEnd(s, p))

DigitCount(s) == Cardinality({p \in 1..Len(s) : IsDigit(Ch(s, p))})

\* The e-mail pattern needs an at-sign and the phone pattern ten digits; the
\* documents of this model hold neither, so both searches find nothing.
\* ("@" in a document of the model is the bullet glyph.)
extractContactInfo(t) ==
  [name |-> NameOf(t), email |-> "", phone |-> "", location |-> LocationOf(t)]

(***************************************************************************)
(* JSON values as the handler sees them.  t is the type; prim is the text  *)
(* of a string, number or boolean; items are an array's elements; props    *)
(* are the named own properties, which an array can be given too.          *)
(***************************************************************************)
Null == [t |-> "null", prim |-> "", items |-> <<>>, props |-> EmptyObject]

Str(x) == [t |-> "str", prim |-> x, items |-> <<>>, props |-> EmptyObject]

Num(x) == [t |-> "num", prim |-> x, items |-> <<>>, props |-> EmptyObject]

Bool(x) == [t |-> "bool", prim |-> x, items |-> <<>>, props |-> EmptyObject]

Arr(elems) == [t |-> "arr", prim |-> "", items |-> elems, props |-> EmptyObject]

Obj(entries) == [t |-> "obj", prim |-> "", items |-> <<>>, props |-> entries]

\* !x
Falsy(x) ==
  \/ x.t = "null"
  \/ x.t = "bool" /\ x.prim = "false"
  \/ x.t = "num" /\ x.prim = "0"
  \/ x.t = "str" /\ x.prim = ""

\* Object.keys(x).length, x not null
KeyCount(x) ==
  CASE x.t = "obj" -> Len(x.props)
    [] x.t = "arr" -> Len(x.items) + Len(x.props)
    [] x.t = "str" -> Len(x.prim)
    [] OTHER -> 0

\* the in operator throws a TypeError on a primitive
InThrows(x) == x.t \in {"str", "num", "bool"}

\* x[key] == null: missing or null
IsNullish(x, key) == ~Has(x.props, key) \/ Get(x.props, key).t = "null"

\* x.length === 0
LengthIsZero(x) ==
  \/ x.t = "arr" /\ Len(x.items) = 0
  \/ x.t = "str" /\ x.prim = ""

\* the test of the patch loop on one required key
NeedsFallback(x, key) ==
  \/ ~Has(x.props, key)
  \/ Get(x.props, key).t = "null"
  \/ Get(x.props, key).t = "arr" /\ Len(Get(x.props, key).items) = 0
  \/ Get(x.props, key).t \in {"obj", "arr"} /\ KeyCount(Get(x.props, key)) = 0

\* x[key] = value
SetProp(x, key, value) == [x EXCEPT !.props = Put(x.props, key, value)]

\* what JSON.stringify keeps: an array's named properties are not written
Serialized(x) == IF x.t = "arr" THEN Arr(x.items) ELSE x

(***************************************************************************)
(* The POST /api/parse handler                                             *)
(***************************************************************************)
requiredKeys ==
  <<"profile", "education", "positions", "publications", "projects", "skills", "awards">>

HandlerSectionNames ==
  <<"Work Experience", "Professional Experience", "Founder & Product Experience",
    "Research Experience", "Experience", "Employment", "Positions", "Appointments",
    "Education", "Academic Background", "Academic Experience",
    "Skills", "Skills & Interests", "Technical Skills", "Core Competencies",
    "Laboratory & Fields", "Programming Languages", "Technologies", "Tools",
    "Frameworks", "Interests">>

WorkSectionKeys ==
  <<"work experience", "professional experience", "founder & product experience",
    "research experience", "experience", "employment", "positions", "appointments">>

EducationSectionKeys == <<"education", "academic background", "academic experience">>

SkillsSectionKeys ==
  <<"skills", "skills & interests", "technical skills", "core competencies",
    "laboratory & fields", "programming languages", "technologies", "tools",
    "frameworks", "interests">>

\* sections[k1] || sections[k2] || ... : the first non-empty value; a parser
\* treats undefined and "" alike, so "" stands for both
RECURSIVE FirstSection(_, _)
FirstSection(secs, keys) ==
  IF keys = <<>> THEN ""
  ELSE IF Has(secs, Head(keys)) /\ Get(secs, Head(keys)) # "" THEN Get(secs, Head(keys))
  ELSE FirstSection(secs, Tail(keys))

\* const parsed = { name, email, phone, location, work_experience, education, skills }
ParsedOf(t, secs) ==
  LET contactInfo == extractContactInfo(t)
  IN [name |-> contactInfo.name, email |-> contactInfo.email,
      phone |-> contactInfo.phone, location |-> contactInfo.location,
      work_experience |-> parseWorkExperience(FirstSection(secs, WorkSectionKeys)),
      education |-> parseEducation(FirstSection(secs, EducationSectionKeys)),
      skills |-> parseSkills(FirstSection(secs, SkillsSectionKeys))]

\* the parsers' results as JSON values
JsonStrings(strs) == Arr([n \in 1..Len(strs) |-> Str(strs[n])])

JsonEntry(e) ==
  Obj([n \in 1..Len(e) |->
         [k |-> e[n].k,
          v |-> IF e[n].k = "highlights" THEN JsonStrings(e[n].v) ELSE Str(e[n].v)]])

JsonEntries(es) == Arr([n \in 1..Len(es) |-> JsonEntry(es[n])])

JsonSkills(sk) == Obj([n \in 1..Len(sk) |-> [k |-> sk[n].k, v |-> JsonStrings(sk[n].v)]])

parsedFallback(pd) ==
  Obj(<<[k |-> "profile",
         v |-> Obj(<<[k |-> "name", v |-> Str(pd.name)],
                     [k |-> "email", v |-> Str(pd.email)],
                     [k |-> "phone", v |-> Str(pd.phone)],
                     [k |-> "location", v |-> Str(pd.location)],
                     [k |-> "summary", v |-> Str("")],
                     [k |-> "social", v |-> Arr(<<>>)]>>)],
        [k |-> "education", v |-> JsonEntries(pd.education)],
        [k |-> "positions", v |-> JsonEntries(pd.work_experience)],
        [k |-> "publications", v |-> Arr(<<>>)],
        [k |-> "projects", v |-> Arr(<<>>)],
        [k |-> "skills", v |-> JsonSkills(pd.skills)],
        [k |-> "awards", v |-> Arr(<<>>)]>>)

\* the for loop over requiredKeys, from the n-th key on
RECURSIVE PatchKeys(_, _, _)
PatchKeys(x, fallback, n) ==
  IF n > Len(requiredKeys) THEN x
  ELSE PatchKeys(IF NeedsFallback(x, requiredKeys[n])
                 THEN SetProp(x, requiredKeys[n], Get(fallback.props, requiredKeys[n]))
                 ELSE x,
                 fallback, n + 1)

\* if (!academicJson || Object.keys(academicJson).length === 0) ... else ...
Patched(x, pd) ==
  IF Falsy(x) \/ KeyCount(x) = 0 THEN parsedFallback(pd)
  ELSE PatchKeys(x, parsedFallback(pd), 1)

\* whether the patch throws: the in operator applied to a primitive with keys
PatchThrows(x) == ~(Falsy(x) \/ KeyCount(x) = 0) /\ InThrows(x)

\* if ((positions == null || positions.length === 0) && work_experience.length > 0)
WithPositions(x, pd) ==
  IF /\ IsNullish(x, "positions") \/ LengthIsZero(Get(x.props, "positions"))
     /\ Len(pd.work_experience) > 0
  THEN SetProp(x, "positions", JsonEntries(pd.work_experience))
  ELSE x

\* an assembly that hands the reply on as it came
AssembledAsReplied(x, pd) == x

\* lines 461-495: the patch, then the positions rule
Assembled(x, pd) == WithPositions(Patched(x, pd), pd)

(***************************************************************************)
(* gptOrganizeResume: the fenced block of the completion, parsed as JSON   *)
(***************************************************************************)
Quote(x) == "\"" \o x \o "\""

\* JSON.stringify without indentation
RECURSIVE Stringify(_)
Stringify(x) ==
  CASE x.t = "null" -> "null"
    [] x.t \in {"num", "bool"} -> x.prim
    [] x.t = "str" -> Quote(x.prim)
    [] x.t = "arr" ->
         "[" \o join([n \in 1..Len(x.items) |-> Stringify(x.items[n])], ",") \o "]"
    [] OTHER ->
         "{" \o join([n \in 1..Len(x.props) |->
                        Quote(x.props[n].k) \o ":" \o Stringify(x.props[n].v)], ",") \o "}"

\* the code fence, three backquotes, written with apostrophes
Fence == "'''"

\* content.match(/'''json\s*([\s\S]*?)\s*'''/i): the captured text, in a
\* one-element sequence, or the empty sequence when there is no match
FenceMatch(content) ==
  LET open == IndexOf(toLowerCase(content), Fence \o "json")
      rest == SubSeq(content, open + Len(Fence) + 4, Len(content))
      close == IndexOf(rest, Fence)
  IN IF open = 0 \/ close = 0 THEN <<>>
     ELSE <<trim(SubSeq(rest, 1, close - 1))>>

\* the values a structuring reply can hold
Missing == [t |-> "missing", prim |-> "", items |-> <<>>, props |-> EmptyObject]

ReplyEntry == Obj(<<[k |-> "title", v |-> Str("CTO")]>>)

PositionsValues ==
  {Missing, Null, Arr(<<>>), Obj(EmptyObject), Arr(<<ReplyEntry>>), Str(""), Str("x"), Num("0")}

ProfileValues == {Missing, Null, Obj(EmptyObject), Obj(<<[k |-> "name", v |-> Str("Jane")]>>)}

OtherValues == {Missing, Arr(<<>>), Arr(<<ReplyEntry>>)}

\* the entries of an object literal, keys with no value left out
RECURSIVE Present(_)
Present(entries) ==
  IF entries = <<>> THEN <<>>
  ELSE IF Head(entries).v = Missing THEN Present(Tail(entries))
  ELSE <<Head(entries)>> \o Present(Tail(entries))

ReplyObject(profile, positions, other) ==
  Obj(Present(<<[k |-> "profile", v |-> profile],
                [k |-> "education", v |-> other],
                [k |-> "positions", v |-> positions],
                [k |-> "publications", v |-> other],
                [k |-> "projects", v |-> other],
                [k |-> "skills",
                 v |-> IF other.t = "arr" /\ Len(other.items) > 0
                       THEN Obj(<<[k |-> "Languages", v |-> Arr(<<Str("Go")>>)]>>)
                       ELSE IF other.t = "arr" THEN Obj(EmptyObject) ELSE other],
                [k |-> "awards", v |-> other]>>))

ObjectValues ==
  {ReplyObject(profile, positions, other) :
     profile \in ProfileValues, positions \in PositionsValues, other \in OtherValues}

NonObjectValues ==
  {Null, Str(""), Str("abc"), Num("0"), Num("7"), Bool("false"), Bool("true"),
   Arr(<<>>), Arr(<<ReplyEntry>>)}

JsonValues == ObjectValues \cup NonObjectValues

JsonTexts == {[text |-> Stringify(x), value |-> x] : x \in JsonValues}

\* JSON.parse: the value in a one-element sequence, or the empty sequence
\* when the text is not JSON
JSONparse(t) ==
  IF \E e \in JsonTexts : e.text = t
  THEN <<(CHOOSE e \in JsonTexts : e.text = t).value>>
  ELSE <<>>

\* the value gptOrganizeResume returns, in a one-element sequence, or the
\* empty sequence when it throws
gptOrganizeResume(content) ==
  IF FenceMatch(content) = <<>> THEN <<>> ELSE JSONparse(FenceMatch(content)[1])

\* the completions of the model: a reply in a fenced block, with and without
\* text around it, and replies that are not usable
Fenced(t) == Fence \o "json\n" \o t \o "\n" \o Fence

CompletionPool ==
  {Fenced(e.text) : e \in JsonTexts}
    \cup {"Here you go: " \o Fence \o "JSON {} " \o Fence \o " Anything else?",
          "I could not read this resume.",
          Fenced("{\"profile\": "),
          Fence \o "json\n{}"}

(***************************************************************************)
(* The request handler, one step per stretch of code between two awaits    *)
(***************************************************************************)
ReqIds == {1, 2}

DocPool ==
  {"Jane Doe\nAustin, TX\nWork Experience\nSenior Engineer\n(Acme Corp)\n2020 - Present\n@ Built thing one\nEducation\nBachelor of Science\nState University\nSkills\nLanguages:\nPython, Go\n",
   "Founder & Product Experience\nChief Executive Officer\n(Acme Corp)\n\nSkills & Interests\nTools: Git, Vim\n",
   "Laboratory & Fields\nPCR, Microscopy\n",
   "no headings at all\njust some text\n"}

NoParsed ==
  [name |-> "", email |-> "", phone |-> "", location |-> "",
   work_experience |-> <<>>, education |-> <<>>, skills |-> EmptyObject]

NoResponse == [status |-> 0, body |-> Null]

ErrorResponse(code, message) ==
  [status |-> code, body |-> Obj(<<[k |-> "error", v |-> Str(message)]>>)]

PdfErrorResponse ==
  ErrorResponse(500, "Failed to parse PDF. Please ensure it's a valid PDF file.")

HandlerOff ==
  /\ pc = [r \in ReqIds |-> "absent"]
  /\ parsed = [r \in ReqIds |-> NoParsed]
  /\ relevantText = [r \in ReqIds |-> ""]
  /\ completion = [r \in ReqIds |-> ""]
  /\ academicJson = [r \in ReqIds |-> Null]
  /\ caught = [r \in ReqIds |-> "none"]
  /\ response = [r \in ReqIds |-> NoResponse]
  /\ resumes = <<>>

\* db.data ||= { resumes: [] }, and no request yet
HandlerInit == HandlerOff

\* app.post("/api/parse", ...): form.parse is started
Post(r) ==
  /\ pc[r] = "absent"
  /\ pc' = [pc EXCEPT ![r] = "form"]
  /\ UNCHANGED <<parsed, relevantText, completion, academicJson, caught, response, resumes>>
  /\ UNCHANGED notHandler

Respond(r, resp) ==
  /\ pc' = [pc EXCEPT ![r] = "done"]
  /\ response' = [response EXCEPT ![r] = resp]

\* if (err) return res.status(500)...
FormError(r) ==
  /\ pc[r] = "form"
  /\ Respond(r, ErrorResponse(500, "Failed to parse form data"))
  /\ UNCHANGED <<parsed, relevantText, completion, academicJson, caught, resumes>>
  /\ UNCHANGED notHandler

\* if (!fileObj || !fileObj.filepath) return res.status(400)...
NoFile(r) ==
  /\ pc[r] = "form"
  /\ Respond(r, ErrorResponse(400, "No resume file uploaded"))
  /\ UNCHANGED <<parsed, relevantText, completion, academicJson, caught, resumes>>
  /\ UNCHANGED notHandler

\* fs.readFileSync throws
ReadFileThrows(r) ==
  /\ pc[r] = "form"
  /\ caught' = [caught EXCEPT ![r] = "readFile"]
  /\ Respond(r, PdfErrorResponse)
  /\ UNCHANGED <<parsed, relevantText, completion, academicJson, resumes>>
  /\ UNCHANGED notHandler

\* const text = await pdf(dataBuffer): the call is made
ReadFile(r) ==
  /\ pc[r] = "form"
  /\ pc' = [pc EXCEPT ![r] = "pdf"]
  /\ UNCHANGED <<parsed, relevantText, completion, academicJson, caught, response, resumes>>
  /\ UNCHANGED notHandler

\* pdf(dataBuffer) rejects
PdfRejected(r) ==
  /\ pc[r] = "pdf"
  /\ caught' = [caught EXCEPT ![r] = "pdf"]
  /\ Respond(r, PdfErrorResponse)
  /\ UNCHANGED <<parsed, relevantText, completion, academicJson, resumes>>
  /\ UNCHANGED notHandler

\* pdf(dataBuffer) resolves: sections, contact info, parsers, digest, and
\* the structuring call is made
PdfResolved(r) ==
  /\ pc[r] = "pdf"
  /\ \E t \in DocPool :
       LET secs == extractSectionsByLines(t, HandlerSectionNames)
       IN /\ parsed' = [parsed EXCEPT ![r] = ParsedOf(t, secs)]
          /\ relevantText' =
               [relevantText EXCEPT ![r] = buildRelevantResumeText(secs, DefaultMaxTotalLength)]
  /\ pc' = [pc EXCEPT ![r] = "gpt"]
  /\ UNCHANGED <<completion, academicJson, caught, response, resumes>>
  /\ UNCHANGED notHandler

GptErrorResponse ==
  ErrorResponse(500, "Failed to organize resume with GPT. Please try again or simplify your resume.")

\* openai.chat.completions.create rejects
GptRejected(r) ==
  /\ pc[r] = "gpt"
  /\ caught' = [caught EXCEPT ![r] = "gpt"]
  /\ Respond(r, GptErrorResponse)
  /\ UNCHANGED <<parsed, relevantText, completion, academicJson, resumes>>
  /\ UNCHANGED notHandler

\* a handler that answers an unusable completion with the heuristic record
GptUnusableFallsBack(r, completions) ==
  /\ pc[r] = "gpt"
  /\ \E content \in completions :
       /\ gptOrganizeResume(content) = <<>>
       /\ completion' = [completion EXCEPT ![r] = content]
  /\ academicJson' = [academicJson EXCEPT ![r] = parsedFallback(parsed[r])]
  /\ resumes' = Append(resumes, academicJson'[r])
  /\ pc' = [pc EXCEPT ![r] = "write"]
  /\ UNCHANGED <<parsed, relevantText, caught, response>>
  /\ UNCHANGED notHandler

\* the completion arrives and gptOrganizeResume throws on it
GptUnusable(r, completions) ==
  /\ pc[r] = "gpt"
  /\ \E content \in completions :
       /\ gptOrganizeResume(content) = <<>>
       /\ completion' = [completion EXCEPT ![r] = content]
  /\ caught' = [caught EXCEPT ![r] = "gpt"]
  /\ Respond(r, GptErrorResponse)
  /\ UNCHANGED <<parsed, relevantText, academicJson, resumes>>
  /\ UNCHANGED notHandler

\* the completion arrives, gptOrganizeResume returns, and the patch throws
AssemblyThrows(r, completions) ==
  /\ pc[r] = "gpt"
  /\ \E content \in completions :
       /\ gptOrganizeResume(content) # <<>>
       /\ PatchThrows(gptOrganizeResume(content)[1])
       /\ completion' = [completion EXCEPT ![r] = content]
       /\ academicJson' = [academicJson EXCEPT ![r] = gptOrganizeResume(content)[1]]
  /\ caught' = [caught EXCEPT ![r] = "TypeError"]
  /\ Respond(r, PdfErrorResponse)
  /\ UNCHANGED <<parsed, relevantText, resumes>>
  /\ UNCHANGED notHandler

\* the completion arrives, gptOrganizeResume returns, the result is
\* assembled and pushed, and db.write() is called
Assemble(r, completions) ==
  /\ pc[r] = "gpt"
  /\ \E content \in completions :
       /\ gptOrganizeResume(content) # <<>>
       /\ ~PatchThrows(gptOrganizeResume(content)[1])
       /\ completion' = [completion EXCEPT ![r] = content]
       /\ academicJson' =
            [academicJson EXCEPT ![r] = Assembled(gptOrganizeResume(content)[1], parsed[r])]
  /\ resumes' = Append(resumes, academicJson'[r])
  /\ pc' = [pc EXCEPT ![r] = "write"]
  /\ UNCHANGED <<parsed, relevantText, caught, response>>
  /\ UNCHANGED notHandler

\* db.write() rejects
WriteRejected(r) ==
  /\ pc[r] = "write"
  /\ caught' = [caught EXCEPT ![r] = "write"]
  /\ Respond(r, PdfErrorResponse)
  /\ UNCHANGED <<parsed, relevantText, completion, academicJson, resumes>>
  /\ UNCHANGED notHandler

\* a handler that replies with the record stored last
WriteResolvedLastStored(r) ==
  /\ pc[r] = "write"
  /\ Respond(r, [status |-> 200, body |-> Serialized(resumes[Len(resumes)])])
  /\ UNCHANGED <<parsed, relevantText, completion, academicJson, caught, resumes>>
  /\ UNCHANGED notHandler

\* db.write() resolves: res.status(200).json(academicJson)
WriteResolved(r) ==
  /\ pc[r] = "write"
  /\ Respond(r, [status |-> 200, body |-> Serialized(academicJson[r])])
  /\ UNCHANGED <<parsed, relevantText, completion, academicJson, caught, resumes>>
  /\ UNCHANGED notHandler

\* one request's steps; completions are the replies the structuring service
\* may give
Handle(r, completions) ==
  \/ Post(r)
  \/ FormError(r)
  \/ NoFile(r)
  \/ ReadFileThrows(r)
  \/ ReadFile(r)
  \/ PdfRejected(r)
  \/ PdfResolved(r)
  \/ GptRejected(r)
  \/ GptUnusable(r, completions)
  \/ AssemblyThrows(r, completions)
  \/ Assemble(r, completions)
  \/ WriteRejected(r)
  \/ WriteResolved(r)

\* one request, every reply of the pool
Next == Handle(1, CompletionPool)

\* the replies given when two requests are in flight together: an object,
\* an empty object, a string, an array, a reply without a fence and a
\* fenced block that is not JSON
PairCompletions ==
  {Fenced(Stringify(x)) :
     x \in {ReplyObject(Obj(<<[k |-> "name", v |-> Str("Jane")]>>), Arr(<<>>), Arr(<<ReplyEntry>>)),
            Obj(EmptyObject), Str("abc"), Arr(<<ReplyEntry>>)}}
    \cup {"I could not read this resume.", Fenced("{\"profile\": ")}

\* two requests in flight, their steps interleaved at the awaits
NextPair == \E r \in ReqIds : Handle(r, PairCompletions)

\* the 0-based indices of the scanned lines that match a normalized candidate
MatchingLines(section) ==
  {k \in 0..(idx - 1) : HeaderMatches(normalizeHeader(lines[k + 1]), section)}

NormalizedNames == NormalizeNames(sectionNames)

\* C3: every candidate name of the list, as the caller passed it, is a key of
\* the returned section map.
C3_EveryCandidateNameIsKey ==
  spc = "done" => \A i \in 1..Len(sectionNames) : Has(sections, sectionNames[i])

\* C4: a candidate whose normalized name is contained in no line of the
\* document gets the empty string as its section.
C4_AbsentHeaderGivesEmptySection ==
  spc = "done" =>
    \A i \in 1..Len(sectionNames) :
      (\A k \in 1..Len(lines) : ~includes(normalizeHeader(lines[k]), NormalizedNames[i]))
        => /\ Has(sections, NormalizedNames[i])
           /\ Get(sections, NormalizedNames[i]) = ""

\* the start line of the next recognized header after startIdx in document
\* order, or the number of lines
NextHeaderLine(startIdx) ==
  LET later == {sectionIndices[x] : x \in DOMAIN sectionIndices} \cap (startIdx + 1)..Len(lines)
  IN IF later = {} THEN Len(lines) ELSE CHOOSE e \in later : \A f \in later : e <= f

\* C5: the text of a matched candidate is the line range from just after its
\* header line up to the next recognized header line in document order (or
\* the end of the document), so no section contains another candidate's
\* header line, whatever the order of the candidate list.
C5_SectionEndsAtNextHeader ==
  spc = "done" =>
    \A i \in 1..Len(sectionNames) :
      NormalizedNames[i] \in DOMAIN sectionIndices =>
        Get(sections, NormalizedNames[i]) =
          trim(join(slice(lines, sectionIndices[NormalizedNames[i]] + 1,
                          NextHeaderLine(sectionIndices[NormalizedNames[i]])), "\n"))

FirstMatchRecorded ==
  spc \in {"scan", "done"} =>
    \A i \in 1..Len(sectionNames) :
      LET section == NormalizedNames[i]
          matching == MatchingLines(section)
      IN IF matching = {} THEN section \notin DOMAIN sectionIndices
         ELSE /\ section \in DOMAIN sectionIndices
              /\ sectionIndices[section] \in matching
              /\ \A k \in matching : sectionIndices[section] <= k

RecordedIndexKept ==
  \A section \in DOMAIN sectionIndices :
    /\ section \in DOMAIN sectionIndices'
    /\ sectionIndices'[section] = sectionIndices[section]

LinesOfKind(ls, pool) ==
  LET F[n \in 1..Len(ls)] ==
        IF n = 1 THEN <<>>
        ELSE IF ls[n] \in pool THEN Append(F[n - 1], ls[n]) ELSE F[n - 1]
  IN IF ls = <<>> THEN <<>> ELSE F[Len(ls)]

HighlightPool == {HighlightLines[n] : n \in 1..Len(HighlightLines)}

\* one title line followed by one organization, dates, location and long
\* free-text line and by highlight lines, in any order
IsOneEntryInput(ls) ==
  /\ Len(ls) >= 6
  /\ ls[1] \in TitlePool
  /\ Len(LinesOfKind(ls, OrganizationPool)) = 1
  /\ Len(LinesOfKind(ls, DatesPool)) = 1
  /\ Len(LinesOfKind(ls, LocationPool)) = 1
  /\ Len(LinesOfKind(ls, SummaryPool)) = 1
  /\ Len(LinesOfKind(ls, HighlightPool)) = Len(ls) - 5

\* what each pool line says once its parentheses or its glyph are taken off
OrganizationText == ("(Acme Corp)" :> "Acme Corp")

HighlightText ==
  ("@ Built thing one" :> "Built thing one") @@ ("* Fixed it" :> "Fixed it")
  @@ ("-  Built thing one" :> "Built thing one")

\* the non-empty values of q that no earlier position of q holds, in order
FirstOccurrences(q) ==
  LET F[n \in 0..Len(q)] ==
        IF n = 0 THEN <<>>
        ELSE IF q[n] # "" /\ \A m \in 1..(n - 1) : q[m] # q[n]
             THEN Append(F[n - 1], q[n]) ELSE F[n - 1]
  IN F[Len(q)]

ExpectedHighlights(ls) ==
  LET hl == LinesOfKind(ls, HighlightPool)
  IN FirstOccurrences([n \in 1..Len(hl) |-> HighlightText[hl[n]]])

\* C8: one title line followed in any order by one organization, dates,
\* location and long free-text line and by bullet lines yields exactly one
\* entry holding those lines, the parenthesized organization text, and the
\* bullet texts stripped, trimmed and without repetitions, first kept.
C8_OneEntryRoundTrip ==
  (wpc = "done" /\ IsOneEntryInput(expLines)) =>
    /\ Len(expResult) = 1
    /\ {Keys(expResult[1])[n] : n \in 1..Len(expResult[1])}
         = {"title", "organization", "dates", "location", "summary", "highlights"}
    /\ Get(expResult[1], "title") = expLines[1]
    /\ Get(expResult[1], "organization")
         = OrganizationText[LinesOfKind(expLines, OrganizationPool)[1]]
    /\ Get(expResult[1], "dates") = LinesOfKind(expLines, DatesPool)[1]
    /\ Get(expResult[1], "location") = LinesOfKind(expLines, LocationPool)[1]
    /\ Get(expResult[1], "summary") = LinesOfKind(expLines, SummaryPool)[1]
    /\ Get(expResult[1], "highlights") = ExpectedHighlights(expLines)

\* a parsed one-entry section whose repeated bullet came before the
\* organization line and whose repetition was dropped
C8_Witness ==
  /\ wpc = "done"
  /\ IsOneEntryInput(expLines)
  /\ expLines[2] \in HighlightPool
  /\ expLines[Len(expLines)] \in OrganizationPool
  /\ Len(LinesOfKind(expLines, HighlightPool)) = 3
  /\ Len(expResult) = 1
  /\ Get(expResult[1], "highlights") = <<"Built thing one", "Fixed it">>

\* the positions of the title lines among the lines of the section
TitleLines(ls) == {n \in 1..Len(ls) : IsTitleLine(trim(ls[n]))}

\* C16: an entry is opened by a title line only: while the lines are taken,
\* the entry being built is empty or has a title; every returned entry has
\* a title; there are as many returned entries as title lines; and lines of
\* the other kinds that come before the first title line create no entry.
C16_EntryPerTitleLine ==
  /\ wpc = "loop" => (currentExp = EmptyObject \/ Has(currentExp, "title"))
  /\ wpc = "done" =>
       /\ \A n \in 1..Len(expResult) : Has(expResult[n], "title")
       /\ Len(expResult) = Cardinality(TitleLines(expLines))
       /\ TitleLines(expLines) = {} => expResult = <<>>

\* the same for sections whose first line is a title line
EntryPerTitleLineAfterTitle ==
  (expLines # <<>> /\ 1 \in TitleLines(expLines)) =>
    /\ (wpc = "loop" /\ expI > 0) => Has(currentExp, "title")
    /\ wpc = "done" =>
         /\ \A n \in 1..Len(expResult) : Has(expResult[n], "title")
         /\ Len(expResult) = Cardinality(TitleLines(expLines))

\* the line the loop of parseWorkExperience takes next, trimmed
NextExpLine == trim(expLines[expI + 1])

\* which of the six patterns a line satisfies, in the order of the claim
PatternsMet(line, cur) ==
  <<IsTitleLine(line), IsOrganizationLine(line), IsDatesLine(line), IsLocationLine(line),
    IsHighlightLine(line), Len(line) > 20 /\ ~Has(cur, "summary")>>

\* the first pattern met, 0 when none is
HighestKind(line, cur) ==
  LET patterns == PatternsMet(line, cur)
      met == {n \in 1..6 : patterns[n]}
  IN IF met = {} THEN 0 ELSE CHOOSE n \in met : \A m \in met : n <= m

EntryFields == {"title", "organization", "dates", "location", "highlights", "summary"}

\* the two entries agree on every field but the given one
SameBut(field, before, after) ==
  \A f \in EntryFields \ {field} :
    /\ Has(after, f) <=> Has(before, f)
    /\ Has(before, f) => Get(after, f) = Get(before, f)

\* the one field set to the given value, the others as they were
OnlySet(field, value, before, after) ==
  /\ Has(after, field) /\ Get(after, field) = value
  /\ SameBut(field, before, after)

\* C17: a line takes effect as the first kind, in the order title,
\* organization, dates, location, highlight, summary, whose pattern it
\* satisfies, and as that kind only: a title line stores the entry that has
\* fields and starts one holding the title; a line of another kind changes
\* the one field of its kind and leaves the result list alone; a long line
\* met when summary is set, and a line that satisfies no pattern, change
\* nothing.
C17_FirstPatternWins ==
  [][(wpc = "loop" /\ expI' = expI + 1) =>
       LET line == NextExpLine
           kind == HighestKind(line, currentExp)
       IN /\ kind = 0 => (currentExp' = currentExp /\ experiences' = experiences)
          /\ kind = 1 =>
               /\ currentExp' = <<[k |-> "title", v |-> line]>>
               /\ experiences' = IF currentExp = EmptyObject THEN experiences
                                 ELSE Append(experiences, currentExp)
          /\ kind > 1 => experiences' = experiences
          /\ kind = 2 =>
               IF ParenMatches(line) = {} THEN currentExp' = currentExp
               ELSE OnlySet("organization", CompanyOf(line), currentExp, currentExp')
          /\ kind = 3 => OnlySet("dates", line, currentExp, currentExp')
          /\ kind = 4 => OnlySet("location", line, currentExp, currentExp')
          /\ kind = 5 =>
               OnlySet("highlights",
                       (IF Has(currentExp, "highlights") THEN Get(currentExp, "highlights")
                        ELSE <<>>) \o <<trim(SubSeq(line, 2, Len(line)))>>,
                       currentExp, currentExp')
          /\ kind = 6 => OnlySet("summary", line, currentExp, currentExp')]_vars

\* an entry with a title has just taken a line that starts with '-' and
\* holds a year: the line became its dates, and no highlight
C17_Witness ==
  /\ wpc = "loop"
  /\ expI >= 2
  /\ trim(expLines[expI]) = "- Shipped 2020 release"
  /\ Has(currentExp, "title")
  /\ Has(currentExp, "dates") /\ Get(currentExp, "dates") = "- Shipped 2020 release"
  /\ ~Has(currentExp, "highlights")

\* the kind of an education line: the first test of the chain it passes
EduKind(line) ==
  IF IsDegreeLine(line) THEN "degree"
  ELSE IF HasAnyWord(line, InstitutionWords) THEN "institution"
  ELSE IF HasYear(line) THEN "dates"
  ELSE IF IsLocationLine(line) THEN "location"
  ELSE IF HasAnyWord(line, HonorsWords) THEN "honors"
  ELSE "none"

\* the positions of the degree lines, in order
DegreeLines(ls) ==
  LET F[n \in 0..Len(ls)] ==
        IF n = 0 THEN <<>>
        ELSE IF EduKind(trim(ls[n])) = "degree" THEN Append(F[n - 1], n) ELSE F[n - 1]
  IN F[Len(ls)]

\* the lines of one kind between the i-th degree line and the next, trimmed
LinesOfEntry(ls, i, kind) ==
  LET degrees == DegreeLines(ls)
      last == IF i < Len(degrees) THEN degrees[i + 1] - 1 ELSE Len(ls)
      F[n \in degrees[i]..last] ==
        IF n = degrees[i] THEN <<>>
        ELSE IF EduKind(trim(ls[n])) = kind THEN Append(F[n - 1], trim(ls[n])) ELSE F[n - 1]
  IN F[last]

\* the field is absent when the entry has no line of the kind, and holds
\* the first (or the last) of them otherwise
HoldsFirst(entry, ls, i, kind) ==
  LET found == LinesOfEntry(ls, i, kind)
  IN IF found = <<>> THEN ~Has(entry, kind)
     ELSE Has(entry, kind) /\ Get(entry, kind) = found[1]

HoldsLast(entry, ls, i, kind) ==
  LET found == LinesOfEntry(ls, i, kind)
  IN IF found = <<>> THEN ~Has(entry, kind)
     ELSE Has(entry, kind) /\ Get(entry, kind) = found[Len(found)]

EntriesFollowDegreeLines ==
  /\ Len(eduResult) = Len(DegreeLines(eduLines))
  /\ \A i \in 1..Len(eduResult) :
       /\ Has(eduResult[i], "degree")
       /\ Get(eduResult[i], "degree") = trim(eduLines[DegreeLines(eduLines)[i]])
       /\ HoldsFirst(eduResult[i], eduLines, i, "institution")
       /\ HoldsLast(eduResult[i], eduLines, i, "dates")
       /\ HoldsLast(eduResult[i], eduLines, i, "location")
       /\ HoldsLast(eduResult[i], eduLines, i, "honors")

\* C18: an entry starts on a degree line only and is flushed on the next
\* degree line or at the end: while the lines are taken, the entry being
\* built is empty or has a degree; there are as many returned entries as
\* degree lines, each with its degree; and in each entry institution is
\* the first institution line after its degree line, and dates, location
\* and honors are the last line of their kind.
C18_EntryPerDegreeLine ==
  /\ epc = "loop" => (currentEdu = EmptyObject \/ Has(currentEdu, "degree"))
  /\ epc = "done" => EntriesFollowDegreeLines

\* the same for sections whose first line is a degree line
EntryPerDegreeLineAfterDegree ==
  (eduLines # <<>> /\ EduKind(trim(eduLines[1])) = "degree") =>
    /\ (epc = "loop" /\ eduI > 0) => Has(currentEdu, "degree")
    /\ epc = "done" => EntriesFollowDegreeLines

\* the skills each pool line lists
SkillTokens ==
  ("Python, Go" :> <<"Python", "Go">>) @@ ("Git" :> <<"Git">>)
  @@ ("@ Go, Rust" :> <<"Go", "Rust">>) @@ ("- Git" :> <<"Git">>)

\* category header lines each followed by skill lines, and nothing else
IsCategorizedInput(ls) ==
  /\ ls # <<>>
  /\ \A n \in 1..Len(ls) : ls[n] \in CategoryLinePool \cup SkillLinePool

\* the category a line stands under: the nearest header above it, or "Other"
CategoryAbove(ls, n) ==
  LET above == {m \in 1..(n - 1) : ls[m] \in CategoryLinePool}
  IN IF above = {} THEN "Other"
     ELSE LET m == CHOOSE x \in above : \A y \in above : x >= y
          IN SubSeq(ls[m], 1, Len(ls[m]) - 1)

\* the skills listed under a category, in order
ListedUnder(ls, category) ==
  LET F[n \in 0..Len(ls)] ==
        IF n = 0 THEN <<>>
        ELSE IF ls[n] \in SkillLinePool /\ CategoryAbove(ls, n) = category
             THEN F[n - 1] \o SkillTokens[ls[n]] ELSE F[n - 1]
  IN F[Len(ls)]

\* the header names in order of first appearance
HeaderNames(ls) ==
  LET F[n \in 0..Len(ls)] ==
        IF n = 0 THEN <<>>
        ELSE IF ls[n] \in CategoryLinePool
             THEN Append(F[n - 1], SubSeq(ls[n], 1, Len(ls[n]) - 1)) ELSE F[n - 1]
  IN FirstOccurrences(F[Len(ls)])

KeysWithoutOther(o) == LET NotOther(key) == key # "Other" IN SelectSeq(Keys(o), NotOther)

\* C9: the result maps exactly the header names, in order of first
\* appearance, to the skills listed under them in order (each once), and
\* holds "Other" only if a skill line comes before the first header.
C9_SkillsByCategory ==
  (kpc = "done" /\ IsCategorizedInput(skillLines)) =>
    /\ KeysWithoutOther(skillResult) = HeaderNames(skillLines)
    /\ \A n \in 1..Len(skillResult) :
         skillResult[n].v = FirstOccurrences(ListedUnder(skillLines, skillResult[n].k))
    /\ Has(skillResult, "Other") => skillLines[1] \in SkillLinePool

\* the same for sections in which no category header is repeated
NoRepeatedHeader(ls) ==
  \A m, n \in 1..Len(ls) : (m # n /\ ls[m] \in CategoryLinePool) => ls[m] # ls[n]

SkillsByCategoryDistinctHeaders ==
  (kpc = "done" /\ IsCategorizedInput(skillLines) /\ NoRepeatedHeader(skillLines)) =>
    /\ KeysWithoutOther(skillResult) = HeaderNames(skillLines)
    /\ \A n \in 1..Len(skillResult) :
         skillResult[n].v = FirstOccurrences(ListedUnder(skillLines, skillResult[n].k))
    /\ Has(skillResult, "Other") => skillLines[1] \in SkillLinePool

\* the line the loop of parseSkills takes next, trimmed
NextSkillLine == trim(skillLines[skillI + 1])

\* the list a category holds, empty when the category is absent
SkillsUnder(sk, category) == IF Has(sk, category) THEN Get(sk, category) ELSE <<>>

\* C13: a category header line creates an empty list for its category only
\* if the category is absent; when the header of a category already there
\* comes again, the skills collected under it are kept, and the skills of
\* later lines are appended after them.
C13_CategoryHeaderKeepsSkills ==
  [][(kpc = "loop" /\ skillI' = skillI + 1) =>
       /\ IsCategoryHeader(NextSkillLine) =>
            LET category == RemoveFirstColon(NextSkillLine)
            IN /\ Has(skills', category)
               /\ Get(skills', category) = SkillsUnder(skills, category)
       /\ (~IsCategoryHeader(NextSkillLine) /\ IsSkillList(NextSkillLine)) =>
            Get(skills', currentCategory)
              = SkillsUnder(skills, currentCategory) \o SkillList(NextSkillLine)]_vars

\* the entry the greedy loop takes next
NextEntry == sectionEntries[entryI + 1]

\* the loop takes an entry that does not fit whole
TakesEntryThatDoesNotFit ==
  /\ dpc = "loop"
  /\ entryI' = entryI + 1
  /\ totalLength + Len(NextEntry.v) > maxTotalLength

\* C14: when the next section does not fit whole, a block holding its first
\* (budget - total) characters is included if and only if at least 200
\* characters of budget remain; with fewer, nothing of it is included.
C14_TruncationThreshold ==
  [][TakesEntryThatDoesNotFit =>
       LET remaining == maxTotalLength - totalLength
       IN IF remaining >= 200
          THEN included' = Append(included, Block(NextEntry.k, SubSeq(NextEntry.v, 1, remaining)))
          ELSE included' = included]_vars

\* the length of the content of the n-th block: what follows its marker.
\* The loop takes the entries in order and stops at the first it leaves out,
\* so the n-th block is the n-th entry's.
IncludedContentLength(n) ==
  Len(included[n]) - Len("=== " \o sectionEntries[n].k \o " ===\n")

RECURSIVE SumTo(_, _)
SumTo(F(_), n) == IF n = 0 THEN 0 ELSE F(n) + SumTo(F, n - 1)

\* C2: the contents included in the digest, markers and joins not counted,
\* add up to at most the budget, and totalLength never exceeds it.
C2_DigestWithinBudget ==
  dpc \in {"loop", "join", "done"} =>
    /\ SumTo(IncludedContentLength, Len(included)) <= maxTotalLength
    /\ totalLength <= maxTotalLength

\* a digest whose second block was cut to the budget that remained
C2_Witness ==
  /\ dpc = "done"
  /\ Len(included) = 2
  /\ IncludedContentLength(2) < Len(sectionEntries[2].v)
  /\ IncludedContentLength(1) + IncludedContentLength(2) = maxTotalLength

\* the marker of the n-th entry, and what the n-th block holds after it
Marker(n) == "=== " \o sectionEntries[n].k \o " ===\n"

BlockContent(n) == SubSeq(included[n], Len(Marker(n)) + 1, Len(included[n]))

\* the n-th block is the n-th entry's, whole or cut
BlockOfEntry(n) ==
  /\ startsWith(included[n], Marker(n))
  /\ BlockContent(n) = SubSeq(sectionEntries[n].v, 1, Len(BlockContent(n)))

IsTruncated(n) == Len(BlockContent(n)) < Len(sectionEntries[n].v)

\* the lengths of the first n entries added up
LengthOfFirst(n) ==
  LET F[m \in 0..n] == IF m = 0 THEN 0 ELSE F[m - 1] + Len(sectionEntries[m].v)
  IN F[n]

\* the first entry, in sorted order, that does not fit whole after those
\* before it; one past the last entry when all fit
FirstThatDoesNotFit ==
  LET over == {n \in 1..Len(sectionEntries) : LengthOfFirst(n) > maxTotalLength}
  IN IF over = {} THEN Len(sectionEntries) + 1
     ELSE CHOOSE n \in over : \A m \in over : n <= m

\* blocks in non-increasing order of content length
LongestFirst ==
  \A n \in 1..(Len(included) - 1) : Len(BlockContent(n)) >= Len(BlockContent(n + 1))

\* the blocks are the entries before the first that does not fit, whole,
\* and at most a cut block of that one after them; no later entry has one
StopsAtFirstThatDoesNotFit ==
  /\ Len(included) \in {FirstThatDoesNotFit - 1, FirstThatDoesNotFit}
  /\ Len(included) <= Len(sectionEntries)
  /\ \A n \in 1..Len(included) : BlockOfEntry(n)
  /\ \A n \in 1..Len(included) : IsTruncated(n) <=> n = FirstThatDoesNotFit

NoEmptyBlock == \A n \in 1..Len(included) : BlockContent(n) # ""

\* the included blocks, compared after trimming
BlocksDifferTrimmed ==
  \A m, n \in 1..Len(included) : m # n => trim(BlockContent(m)) # trim(BlockContent(n))

\* the sections the included blocks were made from, compared after trimming
SourcesDifferTrimmed ==
  \A m, n \in 1..Len(included) :
    m # n => trim(sectionEntries[m].v) # trim(sectionEntries[n].v)

\* C15 as stated: blocks come in non-increasing order of content length;
\* the loop stops at the first section that does not fit whole, so no later
\* section has a block even if it would fit; at most one block is cut and
\* it is the last; no block has empty content and no two blocks have equal
\* trimmed content.
C15_DigestHaltingAndOrder ==
  dpc \in {"join", "done"} =>
    /\ LongestFirst
    /\ StopsAtFirstThatDoesNotFit
    /\ NoEmptyBlock
    /\ BlocksDifferTrimmed

\* C15 as amended: the same, except that what differs after trimming is the
\* contents of the sections the blocks were made from.
C15_DigestHaltingAndSources ==
  dpc \in {"join", "done"} =>
    /\ LongestFirst
    /\ StopsAtFirstThatDoesNotFit
    /\ NoEmptyBlock
    /\ SourcesDifferTrimmed

\* three sections, longest first: the first is included, the second does not
\* fit and too little budget remains for a cut block, so the loop stops, and
\* the third, which would fit, has no block
C15_Witness ==
  /\ dpc = "done"
  /\ Len(sectionEntries) = 3
  /\ Len(included) = 1
  /\ FirstThatDoesNotFit = 2
  /\ Len(sectionEntries[1].v) + Len(sectionEntries[3].v) <= maxTotalLength

(***************************************************************************)
(* Result assembly                                                         *)
(***************************************************************************)
\* the structuring step returned a value for request r
StructuringReturned(r) == completion[r] # "" /\ gptOrganizeResume(completion[r]) # <<>>

\* the value the structuring step returned for request r
Reply(r) == gptOrganizeResume(completion[r])[1]

\* all seven required keys, each with a value that is not null
IsCompleteRecord(x) ==
  \A n \in 1..Len(requiredKeys) :
    Has(x.props, requiredKeys[n]) /\ Get(x.props, requiredKeys[n]).t # "null"

\* C1: for every value the structuring step can return, object or not, the
\* record the handler emits holds all seven required keys with non-null
\* values, and assembly never ends in an error.
C1_AssemblyComplete ==
  \A r \in ReqIds :
    (StructuringReturned(r) /\ pc[r] \in {"write", "done"}) =>
      /\ caught[r] # "TypeError"
      /\ IsCompleteRecord(Serialized(academicJson[r]))

\* the reply's positions value is missing, null or an empty list
PositionsEmpty(x) ==
  \/ ~Has(x.props, "positions")
  \/ Get(x.props, "positions").t = "null"
  \/ Get(x.props, "positions").t = "arr" /\ Len(Get(x.props, "positions").items) = 0

PositionsAreHeuristic(x, r) ==
  /\ Has(x.props, "positions")
  /\ Get(x.props, "positions") = JsonEntries(parsed[r].work_experience)

StructuringFailed(r) ==
  \/ caught[r] = "gpt"
  \/ completion[r] # "" /\ gptOrganizeResume(completion[r]) = <<>>

\* request r got as far as db.data.resumes.push
Stored(r) ==
  /\ StructuringReturned(r)
  /\ caught[r] # "TypeError"
  /\ pc[r] \in {"write", "done"}

EndsWithError(r) ==
  /\ response[r].status \in {400, 500}
  /\ response[r].body.t = "obj"
  /\ Keys(response[r].body.props) = <<"error">>

\* the reply is the record that the patch loop and the positions rule leave
EndsWithRecord(r) ==
  /\ response[r].status = 200
  /\ StructuringReturned(r)
  /\ response[r].body = Serialized(Assembled(Reply(r), parsed[r]))

\* C11: when the structuring call raises, or its completion has no fenced
\* block, or the fenced text is not JSON, the request ends with an error
\* response, no record is assembled or returned (the heuristic fallback
\* included), and the results store gains nothing from it; and every
\* finished request ended with the assembled record or with an error,
\* never with both.
C11_StructuringFailureFatal ==
  /\ Len(resumes) = Cardinality({q \in ReqIds : Stored(q)})
  /\ \A r \in ReqIds :
       pc[r] = "done" =>
         /\ StructuringFailed(r) =>
              /\ EndsWithError(r)
              /\ ~EndsWithRecord(r)
              /\ academicJson[r] = Null
         /\ EndsWithError(r) # EndsWithRecord(r)

\* request 2 has stored and returned its record; request 1 got a fenced
\* block that is not JSON and ended with the structuring error, the store
\* holding request 2's record only
C11_Witness ==
  /\ pc[1] = "done" /\ pc[2] = "done"
  /\ response[2].status = 200
  /\ completion[1] = Fenced("{\"profile\": ")
  /\ response[1] = GptErrorResponse
  /\ resumes = <<academicJson[2]>>

\* the map extractSectionsByLines returns for each document of the pool and
\* the handler's candidate list, and what the handler parses out of it
SectionsOfDoc == [t \in DocPool |-> extractSectionsByLines(t, HandlerSectionNames)]

ParsedOfDoc == [t \in DocPool |-> ParsedOf(t, SectionsOfDoc[t])]

\* the keys the handler looks up, and the candidates they are written after
LookupKeys == WorkSectionKeys \o EducationSectionKeys \o SkillsSectionKeys

\* the contents found under the candidates of one parser, in lookup order
FoundUnder(secs, keys) ==
  LET F[n \in 0..Len(keys)] ==
        IF n = 0 THEN <<>>
        ELSE IF Has(secs, normalizeHeader(keys[n])) /\ Get(secs, normalizeHeader(keys[n])) # ""
             THEN Append(F[n - 1], Get(secs, normalizeHeader(keys[n]))) ELSE F[n - 1]
  IN F[Len(keys)]

\* content found under a candidate of the parser is what the parser is given
ReachesParser(secs, keys) ==
  FoundUnder(secs, keys) # <<>> => FirstSection(secs, keys) = FoundUnder(secs, keys)[1]

\* C19: every key the handler looks up for the work-experience, education
\* and skills text, those with '&' included, is a key of the map that
\* extractSectionsByLines returned for the handler's candidate list, and the
\* content of a section found under a candidate is given to its parser.
C19_LookupKeysAreSectionKeys ==
  \A r \in ReqIds, t \in DocPool :
    (pc[r] = "gpt" /\ parsed[r] = ParsedOfDoc[t]) =>
      /\ \A n \in 1..Len(LookupKeys) : Has(SectionsOfDoc[t], LookupKeys[n])
      /\ ReachesParser(SectionsOfDoc[t], WorkSectionKeys)
      /\ ReachesParser(SectionsOfDoc[t], EducationSectionKeys)
      /\ ReachesParser(SectionsOfDoc[t], SkillsSectionKeys)

\* the same for the keys without '&'
LookupKeysWithoutAmpersand ==
  \A r \in ReqIds, t \in DocPool :
    (pc[r] = "gpt" /\ parsed[r] = ParsedOfDoc[t]) =>
      \A n \in 1..Len(LookupKeys) :
        ~includes(LookupKeys[n], "&") => Has(SectionsOfDoc[t], LookupKeys[n])

\* what the handler parses out of each document of the pool
ParsedDocs == {ParsedOf(t, extractSectionsByLines(t, HandlerSectionNames)) : t \in DocPool}

\* the record a request returns when it is the only one: a function of its
\* document's parsed fields and of the completion it was given
AloneRecord(pd, content) == Serialized(Assembled(gptOrganizeResume(content)[1], pd))

ReturnedAsAlone ==
  \A r \in ReqIds :
    response[r].status = 200 =>
      /\ parsed[r] \in ParsedDocs
      /\ StructuringReturned(r)
      /\ response[r].body = AloneRecord(parsed[r], completion[r])

\* a step leaves the data of every request that did not move as it was
OwnDataUntouched ==
  \A r \in ReqIds :
    pc'[r] = pc[r] =>
      /\ parsed'[r] = parsed[r]
      /\ relevantText'[r] = relevantText[r]
      /\ completion'[r] = completion[r]
      /\ academicJson'[r] = academicJson[r]
      /\ caught'[r] = caught[r]
      /\ response'[r] = response[r]

\* db.data.resumes holds the record of every request that reached the push
StoreHoldsEveryRecord ==
  /\ \A r \in ReqIds : Stored(r) => \E i \in 1..Len(resumes) : resumes[i] = academicJson[r]
  /\ \A i \in 1..Len(resumes) : \E r \in ReqIds : Stored(r) /\ resumes[i] = academicJson[r]

\* the store a request pushed to holds nothing that another request wrote
StoreWrittenByOneRequest ==
  \A r \in ReqIds : Stored(r) => resumes = <<academicJson[r]>>

\* C12 as stated: with two requests in flight, under every interleaving of
\* their steps at the awaits, each request is returned the record it is
\* returned when processed alone, and no step of one request reads or
\* writes state that the other request wrote.
C12_RequestsIndependent ==
  /\ ReturnedAsAlone
  /\ StoreWrittenByOneRequest

\* C12 as amended: each request is returned the record it is returned when
\* processed alone, and a step of one request leaves the other request's
\* own data untouched; the results store is shared, and holds the record
\* of every request that reached the push.
C12_ReturnedRecordIndependent ==
  /\ [](ReturnedAsAlone /\ StoreHoldsEveryRecord)
  /\ [][OwnDataUntouched]_vars

\* both requests were answered with their records, which differ, and
\* request 2 pushed before request 1
C12_Witness ==
  /\ pc[1] = "done" /\ pc[2] = "done"
  /\ response[1].status = 200 /\ response[2].status = 200
  /\ response[1].body # response[2].body
  /\ resumes = <<academicJson[2], academicJson[1]>>

(***************************************************************************)
(* Specifications                                                          *)
(***************************************************************************)
\* each specification exercises one part of the program; the variables of
\* the other parts stay at rest
InitNorm == NormInit /\ SegOff /\ WorkOff /\ SkillsOff /\ DigestOff /\ HandlerOff /\ EduOff

InitSeg == SegInit /\ NormOff /\ WorkOff /\ SkillsOff /\ DigestOff /\ HandlerOff /\ EduOff

InitWork == WorkInit /\ NormOff /\ SegOff /\ SkillsOff /\ DigestOff /\ HandlerOff /\ EduOff

InitSkills == SkillsInit /\ NormOff /\ SegOff /\ WorkOff /\ DigestOff /\ HandlerOff /\ EduOff

InitDigest == DigestInit /\ NormOff /\ SegOff /\ WorkOff /\ SkillsOff /\ HandlerOff /\ EduOff

InitEdu ==
  EduInit /\ NormOff /\ SegOff /\ WorkOff /\ SkillsOff /\ DigestOff /\ HandlerOff

Init == HandlerInit /\ NormOff /\ SegOff /\ WorkOff /\ SkillsOff /\ DigestOff /\ EduOff

SpecNorm == InitNorm /\ [][NormNext]_vars

SpecSeg == InitSeg /\ [][SegNext]_vars

SpecWork == InitWork /\ [][WorkNext]_vars

SpecSkills == InitSkills /\ [][SkillsNext]_vars

SpecDigest == InitDigest /\ [][DigestNext]_vars

SpecEdu == InitEdu /\ [][EduNext]_vars

Spec == Init /\ [][Next]_vars

SpecPair == Init /\ [][NextPair]_vars

====
